---- MODULE Spec2Model ----
(***************************************************************************)
(* Model of the multi-credential pool of kiro.rs                           *)
(* (src/src/kiro/token_manager.rs, MultiTokenManager).                     *)
(*                                                                         *)
(* The pool is shared by the threads of a multi-threaded runtime.  A step  *)
(* of the model is one critical section of the code (one region in which   *)
(* the entries / current_id / mode mutexes are held), together with the    *)
(* thread-local computation around it; an operation that consists of       *)
(* several critical sections or that awaits (the refresh lock, a network   *)
(* call) is a process with a position pc[p].                               *)
(*                                                                         *)
(* Time: expires_at is kept as the number of seconds between "now" and the *)
(* expiry instant, and last_stats_save_at as the number of seconds since   *)
(* the instant it holds; the clock advances only by the action Tick, which *)
(* the specifications of the statistics file take.                         *)
(***************************************************************************)
EXTENDS Integers, Sequences, FiniteSets, TLC

----------------------------------------------------------------------------
(* Bounds of the model *)

NumProcs == 2            \* threads that run multi-step operations
InitEntries == 2         \* credentials ingested at construction
MaxEntries == 2          \* add_credential stops at this pool size
MaxPriority == 1         \* priorities are drawn from 0..MaxPriority
MaxFailureCount == 3     \* report_failure stops counting here (u32 in the code)
MaxSuccessCount == 1     \* report_success stops counting here (u64 in the code)
MaxId == 2               \* ids are drawn from 1..MaxId
TickSeconds == 10        \* seconds by which one Tick advances the clock
BalanceTickSeconds == 100  \* seconds by which one BalanceTick advances it
MaxBalance == 2          \* balances are drawn from 1..MaxBalance

(* Program constants *)

MAX_FAILURES_PER_CREDENTIAL == 3
EXPIRED_MINUTES == 5
EXPIRING_SOON_MINUTES == 10
STATS_SAVE_DEBOUNCE == 30     \* seconds
BALANCE_CACHE_TTL_SECS == 300

----------------------------------------------------------------------------
(* Values *)

Procs == 1..NumProcs
Ids == 1..MaxId
\* an id no entry of the pool has
UnknownId == MaxId + 1
NoProc == 0
\* Config::config_path() is None
NoFile == "NoFile"

\* Option<T>: None is <<>>, Some(v) is <<v>>
None == <<>>
Some(v) == <<v>>
UnwrapOr(o, d) == IF o = <<>> THEN d ELSE o[1]

\* Option<DisabledReason>
NoReason == "None"
Manual == "Manual"
TooManyFailures == "TooManyFailures"
QuotaExceeded == "QuotaExceeded"

\* mark of an id whose entry delete_credential removed (history only)
Deleted == "Deleted"

\* refresh tokens: NoToken is an absent refreshToken, EmptyToken the empty
\* string, TruncatedToken a string shorter than 100 characters or holding "...";
\* the others are well-formed tokens of 100 characters or more.
NoToken == "absent"
EmptyToken == ""
TruncatedToken == "eyJ..."
GoodTokens == {"rt1", "rt2", "rt3", "rt4"}
InitToken == <<"rt1", "rt2", "rt3">>

\* expires_at: seconds from now to the expiry instant; NoExpiry is an absent
\* (or unparsable) expiresAt.
NoExpiry == -1
\* expires_in of a refresh response (seconds), None when the field is absent
ExpiresInValues == {None, Some(3600)}

Max(S) == CHOOSE x \in S : \A y \in S : y <= x

----------------------------------------------------------------------------
(* Token expiry checks *)

\* is_token_expiring_within: None when expires_at is absent, else
\* Some(expires <= now + minutes)
IsTokenExpiringWithin(c, minutes) ==
    IF c.expires_at = NoExpiry THEN None
    ELSE Some(c.expires_at <= minutes * 60)

IsTokenExpired(c) == UnwrapOr(IsTokenExpiringWithin(c, EXPIRED_MINUTES), TRUE)

IsTokenExpiringSoon(c) ==
    UnwrapOr(IsTokenExpiringWithin(c, EXPIRING_SOON_MINUTES), FALSE)

NeedsRefresh(c) == IsTokenExpired(c) \/ IsTokenExpiringSoon(c)

\* validate_refresh_token: "ok" or the error it bails with
ValidateRefreshToken(c) ==
    IF c.refresh_token = NoToken THEN "missing"
    ELSE IF c.refresh_token = EmptyToken THEN "empty"
    ELSE IF c.refresh_token \notin GoodTokens THEN "truncated"
    ELSE "ok"

\* sha256_hex: injective on the tokens of the model
Sha256Hex(s) == <<"sha256", s>>

\* The credential a 2xx refresh response produces (refresh_social_token /
\* refresh_idc_token): clone of the input, access_token replaced,
\* refresh_token and expires_at replaced when the response carries them.
RefreshedCredentials(c, resp) ==
    [c EXCEPT !.access_token = TRUE,
              !.refresh_token = UnwrapOr(resp.refresh_token, c.refresh_token),
              !.expires_at = UnwrapOr(resp.expires_in, c.expires_at)]

\* responses of the upstream OAuth endpoint
Responses ==
    [ok : {FALSE}, refresh_token : {None}, expires_in : {None}]
    \cup [ok : {TRUE}, refresh_token : {None},
          expires_in : ExpiresInValues]

\* responses of an upstream that may rotate the refresh token
RotatingResponses ==
    Responses \cup [ok : {TRUE}, refresh_token : {Some("rt4")},
                    expires_in : ExpiresInValues]

----------------------------------------------------------------------------
(* Entries *)

NewEntry(id, cred) ==
    [id |-> id, credentials |-> cred, failure_count |-> 0, disabled |-> FALSE,
     disabled_reason |-> NoReason, success_count |-> 0]

\* index of the first entry with this id, 0 when there is none
Find(es, id) ==
    IF \E i \in DOMAIN es : es[i].id = id
    THEN CHOOSE i \in DOMAIN es :
            es[i].id = id /\ \A j \in DOMAIN es : es[j].id = id => i <= j
    ELSE 0

Available(es) == {i \in DOMAIN es : ~es[i].disabled}

\* Iterator::min_by_key over the entries at the indices S with the key
\* credentials.priority: the first minimum; 0 when S is empty
MinByPriority(es, S) ==
    IF S = {} THEN 0
    ELSE CHOOSE i \in S : \A j \in S :
            \/ es[i].credentials.priority < es[j].credentials.priority
            \/ /\ es[i].credentials.priority = es[j].credentials.priority
               /\ i <= j

\* the tuple order of (success_count, priority)
KeyLess(a, b) ==
    \/ a.success_count < b.success_count
    \/ /\ a.success_count = b.success_count
       /\ a.credentials.priority < b.credentials.priority

KeyEq(a, b) ==
    /\ a.success_count = b.success_count
    /\ a.credentials.priority = b.credentials.priority

\* faulty variant of MinByUsage: the last minimum instead of the first
MinByUsageLast(es, S) ==
    IF S = {} THEN 0
    ELSE CHOOSE i \in S : \A j \in S :
            \/ KeyLess(es[i], es[j])
            \/ KeyEq(es[i], es[j]) /\ i >= j

\* min_by_key with the key (success_count, credentials.priority): the first
\* minimum; 0 when S is empty
MinByUsage(es, S) ==
    IF S = {} THEN 0
    ELSE CHOOSE i \in S : \A j \in S :
            \/ KeyLess(es[i], es[j])
            \/ KeyEq(es[i], es[j]) /\ i <= j

\* faulty variant of SelectNextCredential: the filter on disabled is missing
SelectNextCredentialUnfiltered(es, mode) ==
    IF mode = "balanced" THEN MinByUsage(es, DOMAIN es)
    ELSE MinByPriority(es, DOMAIN es)

\* select_next_credential: index of the selected entry, 0 for None
SelectNextCredential(es, mode) ==
    IF mode = "balanced" THEN MinByUsage(es, Available(es))
    ELSE MinByPriority(es, Available(es))

----------------------------------------------------------------------------
(* State *)

VARIABLES
    entries,              \* MultiTokenManager.entries: Vec<CredentialEntry>
    current_id,           \* MultiTokenManager.current_id
    load_balancing_mode,  \* MultiTokenManager.load_balancing_mode
    config_file,          \* loadBalancingMode in the config file, NoFile when the
                          \* path of the config file is unknown
    write_back,           \* is_multiple_format and credentials_path is set
    credentials_file,     \* Some(the credentials in the credentials file),
                          \* None when credentials_path is None
    stats_file,           \* Some(the statistics in kiro_stats.json), None
                          \* when stats_path() is None or the file does not exist
    stats_dirty,          \* MultiTokenManager.stats_dirty
    last_stats_save_at,   \* None, or Some of the seconds since the instant in
                          \* MultiTokenManager.last_stats_save_at
    refresh_lock,         \* holder of MultiTokenManager.refresh_lock, NoProc when free
    pc,                   \* position of each thread inside its operation
    loc,                  \* the local variables of the operation a thread runs
    result,               \* what the operation of a thread returned
    balance_cache,        \* AdminService.balance_cache: for each id None or
                          \* Some of the cached balance and the seconds since
                          \* the instant in cached_at
    lock_holder,          \* for each of the parking_lot mutexes entries,
                          \* current_id and load_balancing_mode the thread
                          \* that holds it, NoProc when free
    balance_call,         \* for each thread None, or Some(id) while it is
                          \* inside AdminService::get_balance(id) after a miss
    disabled_by           \* history: the call that last disabled the entry of an id,
                          \* Deleted once delete_credential removed the entry

vars == <<entries, current_id, load_balancing_mode, config_file, write_back,
          credentials_file, stats_file, stats_dirty, last_stats_save_at,
          refresh_lock, pc, loc, result, balance_cache, balance_call,
          lock_holder, disabled_by>>

\* the state of AdminService
admin_vars == <<balance_cache, balance_call>>

stats_vars == <<stats_file, stats_dirty, last_stats_save_at>>

\* the files of the pool and what the pool keeps about them
file_vars == <<write_back, credentials_file, stats_file, stats_dirty,
               last_stats_save_at>>

\* KiroCredentials::default()
NoCreds ==
    [refresh_token |-> NoToken, access_token |-> FALSE, expires_at |-> NoExpiry,
     priority |-> 0]

\* locals of acquire_context / try_ensure_token / get_usage_limits_for /
\* add_credential; tried_ids, healed and path are history: the ids handed to
\* try_ensure_token so far, the ids the self-heal of this call re-enabled, and
\* the way the token was obtained ("snapshot", "refreshed" or "coalesced"; a
\* set_priority call puts its name there);
\* persisted tells that the call has called persist_credentials; mode and
\* previous_mode are the locals of set_load_balancing_mode, snapshot is the
\* list persist_credentials collected
NoLocals ==
    [id |-> 0, credentials |-> NoCreds, total |-> 0, tried_count |-> 0,
     tried_ids |-> <<>>, healed |-> {}, path |-> "", persisted |-> FALSE,
     mode |-> "", previous_mode |-> "", snapshot |-> <<>>]
NoResult == [status |-> "none"]
Ok(id) == [status |-> "ok", id |-> id]
Err(msg) == [status |-> "err", msg |-> msg]
\* the bool a report returns
Returned(b) == [status |-> "returned", value |-> b]

\* credentials as the credentials file may hold them for the i-th entry
InitCredentials(i) ==
    { [refresh_token |-> rt, access_token |-> tk[1], expires_at |-> tk[2],
       priority |-> pr] :
        rt \in {InitToken[i]},
        tk \in {<<TRUE, 300>>, <<TRUE, 3600>>},
        pr \in 0..MaxPriority }

\* MultiTokenManager::new on a list of credentials without ids: ids 1, 2, ...
\* in ingest order, every entry enabled, current_id the first entry of
\* smallest priority (0 for the empty pool)
New(creds) ==
    [i \in DOMAIN creds |-> NewEntry(i, creds[i])]

InitialId(es) ==
    IF es = <<>> THEN 0 ELSE es[MinByPriority(es, DOMAIN es)].id

\* the credential lists the pool may be constructed from
InitLists ==
    UNION { {creds \in [1..n -> UNION {InitCredentials(i) : i \in 1..n}] :
                \A i \in 1..n : creds[i] \in InitCredentials(i)} :
            n \in 0..InitEntries }

\* no thread holds a mutex of the pool
NoLocksHeld ==
    lock_holder = [l \in {"entries", "current_id", "load_balancing_mode"} |-> NoProc]

\* AdminService::new without a balance cache file (or with one whose entries
\* are all older than the TTL): the cache is empty; no get_balance is running
NoBalances ==
    /\ balance_cache = [id \in Ids \cup {UnknownId} |-> None]
    /\ balance_call = [p \in Procs |-> None]

\* the pool was constructed without a credentials path: nothing is written
\* back, there is no stats file and load_stats returned at once
NoFiles ==
    /\ write_back = FALSE
    /\ credentials_file = None
    /\ stats_file = None
    /\ stats_dirty = FALSE
    /\ last_stats_save_at = None

Init ==
    /\ \E creds \in InitLists : entries = New(creds)
    /\ current_id = InitialId(entries)
    /\ load_balancing_mode \in {"priority", "balanced"}
    /\ config_file = load_balancing_mode
    /\ NoFiles
    /\ refresh_lock = NoProc
    /\ NoBalances
    /\ NoLocksHeld
    /\ pc = [p \in Procs |-> "idle"]
    /\ loc = [p \in Procs |-> NoLocals]
    /\ result = [p \in Procs |-> NoResult]
    /\ disabled_by = [i \in Ids |-> NoReason]

----------------------------------------------------------------------------
(* report_success, report_failure, report_quota_exhausted *)

\* stats_path(): the stats file lives next to the credentials file, so
\* there is a stats path exactly when there is a credentials path
HasStatsPath == credentials_file # None

\* the entry after report_success
SucceededEntry(e) ==
    [e EXCEPT !.failure_count = 0, !.success_count = @ + 1]

\* faulty variant of FailedEntry: the threshold is compared with > instead of >=
FailedEntryLate(e) ==
    IF e.failure_count + 1 > MAX_FAILURES_PER_CREDENTIAL
    THEN [e EXCEPT !.failure_count = @ + 1, !.disabled = TRUE,
                   !.disabled_reason = TooManyFailures]
    ELSE [e EXCEPT !.failure_count = @ + 1]

\* the entry after report_failure
FailedEntry(e) ==
    IF e.failure_count + 1 >= MAX_FAILURES_PER_CREDENTIAL
    THEN [e EXCEPT !.failure_count = @ + 1, !.disabled = TRUE,
                   !.disabled_reason = TooManyFailures]
    ELSE [e EXCEPT !.failure_count = @ + 1]

\* faulty variant of ExhaustedEntry: the failure count is left as it is
ExhaustedEntryKeepsCount(e) ==
    IF e.disabled THEN e
    ELSE [e EXCEPT !.disabled = TRUE, !.disabled_reason = QuotaExceeded]

\* the entry after report_quota_exhausted
ExhaustedEntry(e) ==
    IF e.disabled THEN e
    ELSE [e EXCEPT !.disabled = TRUE, !.disabled_reason = QuotaExceeded,
                   !.failure_count = MAX_FAILURES_PER_CREDENTIAL]

\* current_id after an entry was disabled: the first non-disabled entry of
\* smallest priority if there is one
SwitchedCurrent(es, cur) ==
    LET n == MinByPriority(es, Available(es))
    IN  IF n # 0 THEN es[n].id ELSE cur

\* report_success on a pool without a stats path: the entry is updated in one
\* critical section, save_stats_debounced sets the dirty flag and save_stats
\* returns at once; the same holds for the other two reports below
ReportSuccess(id) ==
    /\ ~HasStatsPath
    /\ LET i == Find(entries, id)
       IN  /\ i # 0 => entries[i].success_count < MaxSuccessCount
           /\ entries' = IF i = 0 THEN entries
                         ELSE [entries EXCEPT ![i] = SucceededEntry(@)]
    /\ stats_dirty' = TRUE
    /\ UNCHANGED <<current_id, load_balancing_mode, config_file, admin_vars, lock_holder, write_back, credentials_file, stats_file, last_stats_save_at,
                   refresh_lock, pc, loc, result, disabled_by>>

\* faulty variant of AnyEnabled: whether the pool has an entry at all
AnyEntry(es) == es # <<>>

\* entries.iter().any(|e| !e.disabled)
AnyEnabled(es) == \E i \in DOMAIN es : ~es[i].disabled

\* faulty variant of ReportFailure: the failure is booked on the entry
\* current_id names instead of the entry of the reported id
ReportFailureOnCurrent(p, id) ==
    /\ pc[p] = "idle"
    /\ ~HasStatsPath
    /\ stats_dirty' = (stats_dirty \/ Find(entries, current_id) # 0)
    /\ LET i == Find(entries, current_id)
           es == IF i = 0 THEN entries
                 ELSE [entries EXCEPT ![i] = FailedEntry(@)]
       IN  /\ i # 0 => entries[i].failure_count < MaxFailureCount
           /\ entries' = es
           /\ current_id' =
                IF i # 0 /\ es[i].failure_count >= MAX_FAILURES_PER_CREDENTIAL
                THEN SwitchedCurrent(es, current_id)
                ELSE current_id
           /\ result' = [result EXCEPT ![p] = Returned(AnyEnabled(es))]
    /\ pc' = [pc EXCEPT ![p] = "done"]
    /\ UNCHANGED <<load_balancing_mode, config_file, admin_vars, lock_holder, write_back, credentials_file, stats_file, last_stats_save_at,
                   refresh_lock, loc, disabled_by>>

\* report_failure, called by thread p; the call is one critical section and
\* returns whether a non-disabled entry is left
ReportFailure(p, id) ==
    /\ pc[p] = "idle"
    /\ ~HasStatsPath
    /\ stats_dirty' = (stats_dirty \/ Find(entries, id) # 0)
    /\ LET i == Find(entries, id)
           es == IF i = 0 THEN entries
                 ELSE [entries EXCEPT ![i] = FailedEntry(@)]
       IN  /\ i # 0 => entries[i].failure_count < MaxFailureCount
           /\ entries' = es
           /\ current_id' =
                IF i # 0 /\ es[i].failure_count >= MAX_FAILURES_PER_CREDENTIAL
                THEN SwitchedCurrent(es, current_id)
                ELSE current_id
           /\ result' = [result EXCEPT ![p] = Returned(AnyEnabled(es))]
    /\ pc' = [pc EXCEPT ![p] = "done"]
    /\ UNCHANGED <<load_balancing_mode, config_file, admin_vars, lock_holder, write_back, credentials_file, stats_file, last_stats_save_at,
                   refresh_lock, loc, disabled_by>>

\* report_quota_exhausted, called by thread p; for an unknown id or a disabled
\* entry it returns whether a non-disabled entry exists, otherwise whether
\* a next entry was found after the entry was disabled
ReportQuotaExhausted(p, id) ==
    /\ pc[p] = "idle"
    /\ ~HasStatsPath
    /\ LET i == Find(entries, id)
           hit == i # 0 /\ ~entries[i].disabled
           es == IF i = 0 THEN entries
                 ELSE [entries EXCEPT ![i] = ExhaustedEntry(@)]
       IN  /\ entries' = es
           /\ current_id' = IF hit THEN SwitchedCurrent(es, current_id)
                            ELSE current_id
           /\ disabled_by' = IF hit THEN [disabled_by EXCEPT ![id] = QuotaExceeded]
                             ELSE disabled_by
           /\ result' = [result EXCEPT ![p] = Returned(
                            IF hit THEN MinByPriority(es, Available(es)) # 0
                            ELSE AnyEnabled(entries))]
           /\ stats_dirty' = (stats_dirty \/ hit)
    /\ pc' = [pc EXCEPT ![p] = "done"]
    /\ UNCHANGED <<load_balancing_mode, config_file, admin_vars, lock_holder, write_back, credentials_file, stats_file, last_stats_save_at,
                   refresh_lock, loc>>

----------------------------------------------------------------------------
(* Admin operations that are one critical section *)

\* faulty variant of SetDisabledEntry: enabling keeps the failure count
SetDisabledEntryKeepsCount(e, disabled) ==
    IF disabled
    THEN [e EXCEPT !.disabled = TRUE, !.disabled_reason = Manual]
    ELSE [e EXCEPT !.disabled = FALSE, !.disabled_reason = NoReason]

\* the entry after set_disabled(id, disabled)
SetDisabledEntry(e, disabled) ==
    IF disabled
    THEN [e EXCEPT !.disabled = TRUE, !.disabled_reason = Manual]
    ELSE [e EXCEPT !.disabled = FALSE, !.failure_count = 0,
                   !.disabled_reason = NoReason]

\* faulty variant of ResetEntry: the disabled reason is left as it is
ResetEntryKeepsReason(e) ==
    [e EXCEPT !.failure_count = 0, !.disabled = FALSE]

\* the entry after reset_and_enable
ResetEntry(e) ==
    [e EXCEPT !.failure_count = 0, !.disabled = FALSE,
              !.disabled_reason = NoReason]

\* set_disabled when nothing is written back: one critical section
SetDisabled(id, disabled) ==
    /\ ~write_back
    /\ LET i == Find(entries, id)
       IN  /\ entries' = IF i = 0 THEN entries
                         ELSE [entries EXCEPT ![i] = SetDisabledEntry(@, disabled)]
           /\ disabled_by' =
                IF i = 0 THEN disabled_by
                ELSE [disabled_by EXCEPT
                        ![id] = IF disabled THEN Manual ELSE NoReason]
    /\ UNCHANGED <<current_id, load_balancing_mode, config_file, admin_vars, lock_holder, file_vars, refresh_lock, pc, loc,
                   result>>

\* reset_and_enable when nothing is written back: one critical section
ResetAndEnable(id) ==
    /\ ~write_back
    /\ LET i == Find(entries, id)
       IN  /\ entries' = IF i = 0 THEN entries
                         ELSE [entries EXCEPT ![i] = ResetEntry(@)]
           /\ disabled_by' = IF i = 0 THEN disabled_by
                             ELSE [disabled_by EXCEPT ![id] = NoReason]
    /\ UNCHANGED <<current_id, load_balancing_mode, config_file, admin_vars, lock_holder, file_vars, refresh_lock, pc, loc,
                   result>>

----------------------------------------------------------------------------
(* persist_credentials *)

\* faulty variant of FileOf: the disabled entries are left out
FileOfEnabled(es) ==
    LET enabled == SelectSeq(es, LAMBDA e : ~e.disabled)
    IN  [i \in DOMAIN enabled |->
            [id |-> enabled[i].id, credentials |-> enabled[i].credentials]]

\* the list persist_credentials serializes: the credentials of the entries,
\* each with its id
FileOf(es) ==
    [i \in DOMAIN es |-> [id |-> es[i].id, credentials |-> es[i].credentials]]

\* faulty variant of PersistCredentials: the file is written whatever the
\* format it was loaded in
PersistCredentialsAlways(p) ==
    /\ pc[p] = "persist"
    /\ loc' = [loc EXCEPT ![p].persisted = TRUE,
                          ![p].snapshot = FileOf(entries)]
    /\ pc' = [pc EXCEPT ![p] = "persist_write"]
    /\ UNCHANGED <<entries, current_id, load_balancing_mode, config_file, admin_vars, lock_holder,
                   file_vars, refresh_lock, result, disabled_by>>

\* persist_credentials at the end of an admin call: Ok(false) at once when
\* nothing is written back, otherwise the credentials are collected under
\* the lock of the entries
PersistCredentials(p) ==
    /\ pc[p] = "persist"
    /\ IF write_back
       THEN /\ loc' = [loc EXCEPT ![p].persisted = TRUE,
                                  ![p].snapshot = FileOf(entries)]
            /\ pc' = [pc EXCEPT ![p] = "persist_write"]
            /\ UNCHANGED result
       ELSE /\ loc' = [loc EXCEPT ![p].persisted = TRUE]
            /\ pc' = [pc EXCEPT ![p] = "done"]
            /\ result' = [result EXCEPT ![p] = Ok(loc[p].id)]
    /\ UNCHANGED <<entries, current_id, load_balancing_mode, config_file, admin_vars, lock_holder,
                   file_vars, refresh_lock, disabled_by>>

\* std::fs::write of the collected list succeeds: the file holds the list
PersistWrite(p) ==
    /\ pc[p] = "persist_write"
    /\ pc' = [pc EXCEPT ![p] = "done"]
    /\ credentials_file' = Some(loc[p].snapshot)
    /\ result' = [result EXCEPT ![p] = Ok(loc[p].id)]
    /\ UNCHANGED <<entries, current_id, load_balancing_mode, config_file, admin_vars, lock_holder,
                   write_back, stats_vars, refresh_lock, loc, disabled_by>>

\* std::fs::write fails: the call returns the error
PersistWriteFails(p) ==
    /\ pc[p] = "persist_write"
    /\ pc' = [pc EXCEPT ![p] = "done"]
    /\ result' = [result EXCEPT ![p] = Err("PersistFailed")]
    /\ UNCHANGED <<entries, current_id, load_balancing_mode, config_file, admin_vars, lock_holder,
                   file_vars, refresh_lock, loc, disabled_by>>

\* persist_credentials after a refresh, inside the step that stores the new
\* credentials es: a failure is logged and the call goes on
PersistQuietly(es) ==
    credentials_file' \in IF write_back THEN {Some(FileOf(es)), credentials_file}
                          ELSE {credentials_file}

\* the admin calls that change one entry and persist
AdminOps == {"set_disabled_true", "set_disabled_false", "reset_and_enable"}

\* set_disabled and reset_and_enable up to their call of persist_credentials
AdminBegin(p, id, op) ==
    /\ pc[p] = "idle"
    /\ LET i == Find(entries, id)
       IN  IF i = 0
           THEN /\ pc' = [pc EXCEPT ![p] = "done"]
                /\ result' = [result EXCEPT ![p] = Err("NotFound")]
                /\ UNCHANGED <<entries, disabled_by>>
           ELSE /\ entries' =
                     [entries EXCEPT ![i] =
                        IF op = "reset_and_enable" THEN ResetEntry(@)
                        ELSE SetDisabledEntry(@, op = "set_disabled_true")]
                /\ disabled_by' =
                     [disabled_by EXCEPT ![id] =
                        IF op = "set_disabled_true" THEN Manual ELSE NoReason]
                /\ pc' = [pc EXCEPT ![p] = "persist"]
                /\ UNCHANGED result
    /\ loc' = [loc EXCEPT ![p] = [NoLocals EXCEPT !.id = id, !.path = op]]
    /\ UNCHANGED <<current_id, load_balancing_mode, config_file, admin_vars, lock_holder, file_vars,
                   refresh_lock>>

----------------------------------------------------------------------------
(* acquire_context *)

\* faulty variant of Healable: every disabled entry counts as auto-disabled
HealableAnyDisabled(e) == e.disabled

\* e.disabled_reason == Some(DisabledReason::TooManyFailures)
Healable(e) == e.disabled_reason = TooManyFailures

\* faulty variant of HealEntry: the reason is left in place
HealEntryKeepsReason(e) ==
    IF Healable(e)
    THEN [e EXCEPT !.disabled = FALSE, !.failure_count = 0]
    ELSE e

\* the self-heal of acquire_context, on one entry
HealEntry(e) ==
    IF Healable(e)
    THEN [e EXCEPT !.disabled = FALSE, !.disabled_reason = NoReason,
                   !.failure_count = 0]
    ELSE e

NeedsSelfHeal(es) ==
    \E i \in DOMAIN es : es[i].disabled /\ Healable(es[i])

SelfHeal(es) == [i \in DOMAIN es |-> HealEntry(es[i])]

\* switch_to_next_by_priority: the new current_id
SwitchToNextByPriority(es, cur) ==
    LET n == MinByPriority(es, {i \in Available(es) : es[i].id # cur})
    IN  IF n # 0 THEN es[n].id ELSE cur

\* the entries after a refresh of the credential id stored its result
StoreCredentials(es, id, c) ==
    LET i == Find(es, id)
    IN  IF i = 0 THEN es ELSE [es EXCEPT ![i].credentials = c]

\* the end of try_ensure_token with the credentials creds: a context, or the
\* error of a missing access token
Finish(p, creds, how) ==
    IF creds.access_token
    THEN /\ pc' = [pc EXCEPT ![p] = "done"]
         /\ result' = [result EXCEPT ![p] = Ok(loc[p].id)]
         /\ loc' = [loc EXCEPT ![p].credentials = creds, ![p].path = how,
                               ![p].persisted = (how = "refreshed")]
    ELSE /\ pc' = [pc EXCEPT ![p] = "acq_failed"]
         /\ loc' = [loc EXCEPT ![p].credentials = creds, ![p].path = how,
                               ![p].persisted = (how = "refreshed")]
         /\ UNCHANGED result

\* let total = self.total_count(); let mut tried_count = 0;
AcquireBegin(p) ==
    /\ pc[p] = "idle"
    /\ pc' = [pc EXCEPT ![p] = "acq_loop"]
    /\ loc' = [loc EXCEPT ![p] = [NoLocals EXCEPT !.total = Len(entries)]]
    /\ UNCHANGED <<entries, current_id, load_balancing_mode, config_file, admin_vars, lock_holder, file_vars, refresh_lock,
                   result, disabled_by>>

\* loop head: the bound on tried_count, then the read of the mode
AcquireLoop(p) ==
    /\ pc[p] = "acq_loop"
    /\ IF loc[p].tried_count >= loc[p].total
       THEN /\ pc' = [pc EXCEPT ![p] = "done"]
            /\ result' = [result EXCEPT ![p] = Err("NoValidToken")]
       ELSE /\ pc' = [pc EXCEPT ![p] =
                        IF load_balancing_mode = "balanced" THEN "acq_select"
                        ELSE "acq_current"]
            /\ UNCHANGED result
    /\ UNCHANGED <<entries, current_id, load_balancing_mode, config_file, admin_vars, lock_holder, file_vars, refresh_lock,
                   loc, disabled_by>>

\* faulty variant of AcquireCurrent: priority mode re-selects on every call
AcquireCurrentReselects(p) ==
    /\ pc[p] = "acq_current"
    /\ pc' = [pc EXCEPT ![p] = "acq_select"]
    /\ UNCHANGED <<entries, current_id, load_balancing_mode, config_file, admin_vars, lock_holder, file_vars, refresh_lock,
                   loc, result, disabled_by>>

\* priority mode: the entry current_id names, when it is not disabled
AcquireCurrent(p) ==
    /\ pc[p] = "acq_current"
    /\ LET i == Find(entries, current_id)
       IN  IF i # 0 /\ ~entries[i].disabled
           THEN /\ pc' = [pc EXCEPT ![p] = "acq_ensure"]
                /\ loc' = [loc EXCEPT ![p].id = entries[i].id,
                                      ![p].credentials = entries[i].credentials,
                                      ![p].tried_ids = Append(@, entries[i].id)]
           ELSE /\ pc' = [pc EXCEPT ![p] = "acq_select"]
                /\ UNCHANGED loc
    /\ UNCHANGED <<entries, current_id, load_balancing_mode, config_file, admin_vars, lock_holder, file_vars, refresh_lock,
                   result, disabled_by>>

\* let mut best = self.select_next_credential();
AcquireSelect(p) ==
    /\ pc[p] = "acq_select"
    /\ LET i == SelectNextCredential(entries, load_balancing_mode)
       IN  IF i # 0
           THEN /\ pc' = [pc EXCEPT ![p] = "acq_set_current"]
                /\ loc' = [loc EXCEPT ![p].id = entries[i].id,
                                      ![p].credentials = entries[i].credentials]
           ELSE /\ pc' = [pc EXCEPT ![p] = "acq_heal"]
                /\ UNCHANGED loc
    /\ UNCHANGED <<entries, current_id, load_balancing_mode, config_file, admin_vars, lock_holder, file_vars, refresh_lock,
                   result, disabled_by>>

\* best is None: self-heal when some entry was disabled for its failures,
\* else the error "all credentials disabled"
AcquireHeal(p) ==
    /\ pc[p] = "acq_heal"
    /\ IF NeedsSelfHeal(entries)
       THEN /\ entries' = SelfHeal(entries)
            /\ pc' = [pc EXCEPT ![p] = "acq_reselect"]
            /\ loc' = [loc EXCEPT ![p].healed =
                        {entries[i].id : i \in {j \in DOMAIN entries :
                            Healable(entries[j])}}]
            /\ UNCHANGED result
       ELSE /\ pc' = [pc EXCEPT ![p] = "done"]
            /\ result' = [result EXCEPT ![p] = Err("AllDisabled")]
            /\ UNCHANGED <<entries, loc>>
    /\ UNCHANGED <<current_id, load_balancing_mode, config_file, admin_vars, lock_holder, file_vars, refresh_lock, disabled_by>>

\* best = self.select_next_credential(); after the self-heal
AcquireReselect(p) ==
    /\ pc[p] = "acq_reselect"
    /\ LET i == SelectNextCredential(entries, load_balancing_mode)
       IN  IF i # 0
           THEN /\ pc' = [pc EXCEPT ![p] = "acq_set_current"]
                /\ loc' = [loc EXCEPT ![p].id = entries[i].id,
                                      ![p].credentials = entries[i].credentials]
                /\ UNCHANGED result
           ELSE /\ pc' = [pc EXCEPT ![p] = "done"]
                /\ result' = [result EXCEPT ![p] = Err("AllDisabled")]
                /\ UNCHANGED loc
    /\ UNCHANGED <<entries, current_id, load_balancing_mode, config_file, admin_vars, lock_holder, file_vars, refresh_lock,
                   disabled_by>>

\* *current_id = new_id;
AcquireSetCurrent(p) ==
    /\ pc[p] = "acq_set_current"
    /\ current_id' = loc[p].id
    /\ pc' = [pc EXCEPT ![p] = "acq_ensure"]
    /\ loc' = [loc EXCEPT ![p].tried_ids = Append(@, loc[p].id)]
    /\ UNCHANGED <<entries, load_balancing_mode, config_file, admin_vars, lock_holder, file_vars, refresh_lock, result,
                   disabled_by>>

\* try_ensure_token, first check on the snapshot (no lock)
TryEnsureToken(p) ==
    /\ pc[p] = "acq_ensure"
    /\ IF NeedsRefresh(loc[p].credentials)
       THEN /\ pc' = [pc EXCEPT ![p] = "acq_wait"]
            /\ UNCHANGED <<loc, result>>
       ELSE Finish(p, loc[p].credentials, "snapshot")
    /\ UNCHANGED <<entries, current_id, load_balancing_mode, config_file, admin_vars, lock_holder, file_vars, refresh_lock,
                   disabled_by>>

\* faulty variant of TryEnsureTokenLocked: the second check looks at the
\* snapshot the caller holds instead of the credentials re-read from the entries
TryEnsureTokenLockedNoReread(p) ==
    /\ pc[p] = "acq_wait"
    /\ refresh_lock = NoProc
    /\ IF Find(entries, loc[p].id) = 0
       THEN /\ pc' = [pc EXCEPT ![p] = "acq_failed"]
            /\ UNCHANGED <<loc, result, refresh_lock>>
       ELSE IF NeedsRefresh(loc[p].credentials)
       THEN IF ValidateRefreshToken(loc[p].credentials) = "ok"
            THEN /\ pc' = [pc EXCEPT ![p] = "acq_refreshing"]
                 /\ refresh_lock' = p
                 /\ UNCHANGED <<loc, result>>
            ELSE /\ pc' = [pc EXCEPT ![p] = "acq_failed"]
                 /\ UNCHANGED <<loc, result, refresh_lock>>
       ELSE /\ Finish(p, loc[p].credentials, "coalesced")
            /\ UNCHANGED refresh_lock
    /\ UNCHANGED <<entries, current_id, load_balancing_mode, config_file, admin_vars, lock_holder, file_vars, disabled_by>>

\* let _guard = self.refresh_lock.lock().await; then the second check on the
\* credentials re-read from the entries, and refresh_token up to the request:
\* validate_refresh_token fails without a request
TryEnsureTokenLocked(p) ==
    /\ pc[p] = "acq_wait"
    /\ refresh_lock = NoProc
    /\ LET i == Find(entries, loc[p].id)
       IN  IF i = 0
           THEN \* the credential does not exist any more
                /\ pc' = [pc EXCEPT ![p] = "acq_failed"]
                /\ UNCHANGED <<loc, result, refresh_lock>>
           ELSE IF NeedsRefresh(entries[i].credentials)
           THEN IF ValidateRefreshToken(entries[i].credentials) = "ok"
                THEN /\ pc' = [pc EXCEPT ![p] = "acq_refreshing"]
                     /\ loc' = [loc EXCEPT ![p].credentials = entries[i].credentials]
                     /\ refresh_lock' = p
                     /\ UNCHANGED result
                ELSE /\ pc' = [pc EXCEPT ![p] = "acq_failed"]
                     /\ UNCHANGED <<loc, result, refresh_lock>>
           ELSE \* another request refreshed the token meanwhile
                /\ Finish(p, entries[i].credentials, "coalesced")
                /\ UNCHANGED refresh_lock
    /\ UNCHANGED <<entries, current_id, load_balancing_mode, config_file, admin_vars, lock_holder, file_vars, disabled_by>>

\* the response of the refresh request: an error, a token that is still
\* expired, or new credentials, which are stored in the entry
TryEnsureTokenResponseFrom(p, responses) ==
    /\ pc[p] = "acq_refreshing"
    /\ refresh_lock' = NoProc
    /\ \E resp \in responses :
         LET new_creds == RefreshedCredentials(loc[p].credentials, resp)
         IN  IF ~resp.ok \/ IsTokenExpired(new_creds)
             THEN /\ pc' = [pc EXCEPT ![p] = "acq_failed"]
                  /\ UNCHANGED <<entries, loc, result, credentials_file>>
             ELSE /\ entries' = StoreCredentials(entries, loc[p].id, new_creds)
                  /\ PersistQuietly(entries')
                  /\ Finish(p, new_creds, "refreshed")
    /\ UNCHANGED <<current_id, load_balancing_mode, config_file, admin_vars, lock_holder, write_back,
                   stats_vars, disabled_by>>

\* the upstream answers without a new refresh token
TryEnsureTokenResponse(p) == TryEnsureTokenResponseFrom(p, Responses)

\* faulty variant of AcquireFailed: the failed refresh is counted like a
\* failed API call
AcquireFailedCounts(p) ==
    /\ pc[p] = "acq_failed"
    /\ entries' = LET i == Find(entries, loc[p].id)
                  IN  IF i = 0 THEN entries
                      ELSE [entries EXCEPT ![i] = FailedEntry(@)]
    /\ current_id' = SwitchToNextByPriority(entries, current_id)
    /\ loc' = [loc EXCEPT ![p].tried_count = @ + 1]
    /\ pc' = [pc EXCEPT ![p] = "acq_loop"]
    /\ UNCHANGED <<load_balancing_mode, config_file, admin_vars, lock_holder, file_vars, refresh_lock, result, disabled_by>>

\* faulty variant of AcquireFailed: tried_count is left as it is
AcquireFailedKeepsCount(p) ==
    /\ pc[p] = "acq_failed"
    /\ current_id' = SwitchToNextByPriority(entries, current_id)
    /\ pc' = [pc EXCEPT ![p] = "acq_loop"]
    /\ UNCHANGED <<entries, load_balancing_mode, config_file, admin_vars, lock_holder,
                   file_vars, refresh_lock, loc, result, disabled_by>>

\* Err(e) of try_ensure_token: switch_to_next_by_priority, tried_count += 1
AcquireFailed(p) ==
    /\ pc[p] = "acq_failed"
    /\ current_id' = SwitchToNextByPriority(entries, current_id)
    /\ loc' = [loc EXCEPT ![p].tried_count = @ + 1]
    /\ pc' = [pc EXCEPT ![p] = "acq_loop"]
    /\ UNCHANGED <<entries, load_balancing_mode, config_file, admin_vars, lock_holder, file_vars, refresh_lock, result,
                   disabled_by>>

\* the caller takes the result
Return(p) ==
    /\ pc[p] = "done"
    /\ pc' = [pc EXCEPT ![p] = "idle"]
    /\ loc' = [loc EXCEPT ![p] = NoLocals]
    /\ result' = [result EXCEPT ![p] = NoResult]
    /\ UNCHANGED <<entries, current_id, load_balancing_mode, config_file, admin_vars, lock_holder, file_vars, refresh_lock,
                   disabled_by>>

AcquireContext(p) ==
    \/ AcquireBegin(p) \/ AcquireLoop(p) \/ AcquireCurrent(p)
    \/ AcquireSelect(p) \/ AcquireHeal(p) \/ AcquireReselect(p)
    \/ AcquireSetCurrent(p) \/ TryEnsureToken(p) \/ TryEnsureTokenLocked(p)
    \/ TryEnsureTokenResponse(p) \/ AcquireFailed(p)

----------------------------------------------------------------------------
(* get_usage_limits_for *)

\* the token of credentials that need no refresh, or the error
UsageToken(p, creds) ==
    IF creds.access_token
    THEN /\ pc' = [pc EXCEPT ![p] = "use_reread"]
         /\ UNCHANGED result
    ELSE /\ pc' = [pc EXCEPT ![p] = "done"]
         /\ result' = [result EXCEPT ![p] = Err("NoAccessToken")]

\* read of the credentials and first check
UsageBegin(p, id) ==
    /\ pc[p] = "idle"
    /\ LET i == Find(entries, id)
       IN  IF i = 0
           THEN /\ pc' = [pc EXCEPT ![p] = "done"]
                /\ result' = [result EXCEPT ![p] = Err("NotFound")]
                /\ UNCHANGED loc
           ELSE /\ loc' = [loc EXCEPT ![p] =
                            [NoLocals EXCEPT !.id = id,
                                             !.credentials = entries[i].credentials]]
                /\ IF NeedsRefresh(entries[i].credentials)
                   THEN /\ pc' = [pc EXCEPT ![p] = "use_wait"]
                        /\ UNCHANGED result
                   ELSE UsageToken(p, entries[i].credentials)
    /\ UNCHANGED <<entries, current_id, load_balancing_mode, config_file, admin_vars, lock_holder, file_vars, refresh_lock,
                   disabled_by>>

\* under the refresh lock: re-read, second check, refresh_token up to the request
UsageLocked(p) ==
    /\ pc[p] = "use_wait"
    /\ refresh_lock = NoProc
    /\ LET i == Find(entries, loc[p].id)
       IN  IF i = 0
           THEN /\ pc' = [pc EXCEPT ![p] = "done"]
                /\ result' = [result EXCEPT ![p] = Err("NotFound")]
                /\ UNCHANGED <<loc, refresh_lock>>
           ELSE IF NeedsRefresh(entries[i].credentials)
           THEN IF ValidateRefreshToken(entries[i].credentials) = "ok"
                THEN /\ pc' = [pc EXCEPT ![p] = "use_refreshing"]
                     /\ loc' = [loc EXCEPT ![p].credentials = entries[i].credentials]
                     /\ refresh_lock' = p
                     /\ UNCHANGED result
                ELSE /\ pc' = [pc EXCEPT ![p] = "done"]
                     /\ result' = [result EXCEPT ![p] =
                            Err(ValidateRefreshToken(entries[i].credentials))]
                     /\ UNCHANGED <<loc, refresh_lock>>
           ELSE /\ UsageToken(p, entries[i].credentials)
                /\ loc' = [loc EXCEPT ![p].path = "coalesced"]
                /\ UNCHANGED refresh_lock
    /\ UNCHANGED <<entries, current_id, load_balancing_mode, config_file, admin_vars, lock_holder, file_vars, disabled_by>>

\* the response of the refresh request; the new credentials are stored as
\* they are
UsageResponseFrom(p, responses) ==
    /\ pc[p] = "use_refreshing"
    /\ refresh_lock' = NoProc
    /\ \E resp \in responses :
         IF ~resp.ok
         THEN /\ pc' = [pc EXCEPT ![p] = "done"]
              /\ result' = [result EXCEPT ![p] = Err("RefreshFailed")]
              /\ UNCHANGED <<entries, loc, credentials_file>>
         ELSE /\ entries' = StoreCredentials(entries, loc[p].id,
                                RefreshedCredentials(loc[p].credentials, resp))
              /\ PersistQuietly(entries')
              /\ pc' = [pc EXCEPT ![p] = "use_reread"]
              /\ loc' = [loc EXCEPT ![p].path = "refreshed",
                                    ![p].persisted = TRUE]
              /\ UNCHANGED result
    /\ UNCHANGED <<current_id, load_balancing_mode, config_file, admin_vars, lock_holder, write_back,
                   stats_vars, disabled_by>>

\* the upstream answers without a new refresh token
UsageResponse(p) == UsageResponseFrom(p, Responses)

\* the credentials are read again and the usage request is sent
UsageReread(p) ==
    /\ pc[p] = "use_reread"
    /\ LET i == Find(entries, loc[p].id)
       IN  IF i = 0
           THEN /\ pc' = [pc EXCEPT ![p] = "done"]
                /\ result' = [result EXCEPT ![p] = Err("NotFound")]
                /\ UNCHANGED loc
           ELSE /\ pc' = [pc EXCEPT ![p] = "use_calling"]
                /\ loc' = [loc EXCEPT ![p].credentials = entries[i].credentials]
                /\ UNCHANGED result
    /\ UNCHANGED <<entries, current_id, load_balancing_mode, config_file, admin_vars, lock_holder, file_vars, refresh_lock,
                   disabled_by>>

\* faulty variant of UsageCalled: a failed usage request is counted like a
\* failed API call
UsageCalledCounts(p) ==
    /\ pc[p] = "use_calling"
    /\ pc' = [pc EXCEPT ![p] = "done"]
    /\ \E ok \in BOOLEAN :
         /\ result' = [result EXCEPT ![p] =
                        IF ok THEN Ok(loc[p].id)
                        ELSE Err("UsageFailed")]
         /\ entries' = IF ok \/ Find(entries, loc[p].id) = 0 THEN entries
                       ELSE [entries EXCEPT ![Find(entries, loc[p].id)] =
                                FailedEntry(@)]
    /\ UNCHANGED <<current_id, load_balancing_mode, config_file, admin_vars, lock_holder,
                   file_vars, refresh_lock, loc, disabled_by>>

\* the response of the usage request
UsageCalled(p) ==
    /\ pc[p] = "use_calling"
    /\ pc' = [pc EXCEPT ![p] = "done"]
    /\ \E ok \in BOOLEAN :
         result' = [result EXCEPT ![p] =
                        IF ok THEN Ok(loc[p].id)
                        ELSE Err("UsageFailed")]
    /\ UNCHANGED <<entries, current_id, load_balancing_mode, config_file, admin_vars, lock_holder, file_vars, refresh_lock,
                   loc, disabled_by>>

GetUsageLimitsFor(p) ==
    \/ \E id \in Ids : UsageBegin(p, id)
    \/ UsageLocked(p) \/ UsageResponse(p) \/ UsageReread(p) \/ UsageCalled(p)

----------------------------------------------------------------------------
(* add_credential *)

Adding == {p \in Procs : pc[p] \in {"add_refreshing", "add_push"}}

MaxIdOf(es) == IF es = <<>> THEN 0 ELSE Max({es[i].id : i \in DOMAIN es})

\* faulty variant of DuplicateExists: no entry counts as a duplicate
DuplicateNever(es, c) == FALSE

\* the duplicate check on the hashes of the refresh tokens
DuplicateExists(es, c) ==
    \E i \in DOMAIN es :
        /\ es[i].credentials.refresh_token # NoToken
        /\ Sha256Hex(es[i].credentials.refresh_token) = Sha256Hex(c.refresh_token)

\* validation, duplicate check, then the refresh request is sent (the refresh
\* lock is not taken)
AddBegin(p, c) ==
    /\ pc[p] = "idle"
    /\ Len(entries) + Cardinality(Adding) < MaxEntries
    /\ MaxIdOf(entries) + Cardinality(Adding) < MaxId
    /\ IF ValidateRefreshToken(c) # "ok"
       THEN /\ pc' = [pc EXCEPT ![p] = "done"]
            /\ result' = [result EXCEPT ![p] = Err(ValidateRefreshToken(c))]
            /\ UNCHANGED loc
       ELSE IF DuplicateExists(entries, c)
       THEN /\ pc' = [pc EXCEPT ![p] = "done"]
            /\ result' = [result EXCEPT ![p] = Err("Exists")]
            /\ UNCHANGED loc
       ELSE /\ pc' = [pc EXCEPT ![p] = "add_refreshing"]
            /\ loc' = [loc EXCEPT ![p] = [NoLocals EXCEPT !.credentials = c]]
            /\ UNCHANGED result
    /\ UNCHANGED <<entries, current_id, load_balancing_mode, config_file, admin_vars, lock_holder, file_vars, refresh_lock,
                   disabled_by>>

\* the response of the refresh request, then the new id: the largest id of
\* the pool plus one
AddResponse(p) ==
    /\ pc[p] = "add_refreshing"
    /\ \E resp \in Responses :
         IF ~resp.ok
         THEN /\ pc' = [pc EXCEPT ![p] = "done"]
              /\ result' = [result EXCEPT ![p] = Err("RefreshFailed")]
              /\ UNCHANGED loc
         ELSE /\ pc' = [pc EXCEPT ![p] = "add_push"]
              /\ loc' = [loc EXCEPT
                   ![p].id = MaxIdOf(entries) + 1,
                   ![p].credentials =
                       [RefreshedCredentials(loc[p].credentials, resp)
                          EXCEPT !.priority = loc[p].credentials.priority]]
              /\ UNCHANGED result
    /\ UNCHANGED <<entries, current_id, load_balancing_mode, config_file, admin_vars, lock_holder, file_vars, refresh_lock,
                   disabled_by>>

\* entries.push(...), then persist_credentials
AddPush(p) ==
    /\ pc[p] = "add_push"
    /\ entries' = Append(entries, NewEntry(loc[p].id, loc[p].credentials))
    /\ pc' = [pc EXCEPT ![p] = "persist"]
    /\ UNCHANGED <<current_id, load_balancing_mode, config_file, admin_vars, lock_holder, file_vars,
                   refresh_lock, loc, result, disabled_by>>

\* the credentials the admin submits
NewCredentials ==
    { [NoCreds EXCEPT !.refresh_token = rt, !.priority = pr] :
        rt \in {"rt1", "rt3", TruncatedToken}, pr \in {0} }

AddCredential(p) ==
    \/ \E c \in NewCredentials : AddBegin(p, c)
    \/ AddResponse(p) \/ AddPush(p)

----------------------------------------------------------------------------
(* delete_credential *)

\* faulty variant of SelectHighestPriority: the current entry is excluded, as
\* switch_to_next_by_priority does
SelectHighestPriorityExcludingCurrent(es, cur) ==
    LET n == MinByPriority(es, {i \in Available(es) : es[i].id # cur})
    IN  IF n # 0 THEN es[n].id ELSE cur

\* select_highest_priority: the new current_id
SelectHighestPriority(es, cur) ==
    LET n == MinByPriority(es, Available(es))
    IN  IF n # 0 /\ es[n].id # cur THEN es[n].id ELSE cur

Remove(es, id) == SelectSeq(es, LAMBDA e : e.id # id)

\* faulty variant of DeleteBegin: the entry is removed whether it is disabled
\* or not
DeleteBeginUnchecked(p, id) ==
    /\ pc[p] = "idle"
    /\ LET i == Find(entries, id)
       IN  IF i = 0
           THEN /\ pc' = [pc EXCEPT ![p] = "done"]
                /\ result' = [result EXCEPT ![p] = Err("NotFound")]
                /\ UNCHANGED <<entries, loc, disabled_by>>
           ELSE /\ entries' = Remove(entries, id)
                /\ disabled_by' = [disabled_by EXCEPT ![id] = Deleted]
                /\ loc' = [loc EXCEPT ![p] =
                            [NoLocals EXCEPT !.id = id, !.path = "delete_credential"]]
                /\ pc' = [pc EXCEPT ![p] =
                            IF current_id = id THEN "del_select" ELSE "del_reset"]
                /\ UNCHANGED result
    /\ UNCHANGED <<current_id, load_balancing_mode, config_file, admin_vars, lock_holder, file_vars, refresh_lock>>

\* the entry is looked up, must be disabled, and is removed
DeleteBegin(p, id) ==
    /\ pc[p] = "idle"
    /\ LET i == Find(entries, id)
       IN  IF i = 0
           THEN /\ pc' = [pc EXCEPT ![p] = "done"]
                /\ result' = [result EXCEPT ![p] = Err("NotFound")]
                /\ UNCHANGED <<entries, loc, disabled_by>>
           ELSE IF ~entries[i].disabled
           THEN /\ pc' = [pc EXCEPT ![p] = "done"]
                /\ result' = [result EXCEPT ![p] = Err("NotDisabled")]
                /\ UNCHANGED <<entries, loc, disabled_by>>
           ELSE /\ entries' = Remove(entries, id)
                /\ disabled_by' = [disabled_by EXCEPT ![id] = Deleted]
                /\ loc' = [loc EXCEPT ![p] =
                            [NoLocals EXCEPT !.id = id, !.path = "delete_credential"]]
                /\ pc' = [pc EXCEPT ![p] =
                            IF current_id = id THEN "del_select" ELSE "del_reset"]
                /\ UNCHANGED result
    /\ UNCHANGED <<current_id, load_balancing_mode, config_file, admin_vars, lock_holder, file_vars, refresh_lock>>

\* if was_current { self.select_highest_priority(); }
DeleteSelect(p) ==
    /\ pc[p] = "del_select"
    /\ current_id' = SelectHighestPriority(entries, current_id)
    /\ pc' = [pc EXCEPT ![p] = "del_reset"]
    /\ UNCHANGED <<entries, load_balancing_mode, config_file, admin_vars, lock_holder, file_vars, refresh_lock, loc, result,
                   disabled_by>>

\* if entries.is_empty() { *current_id = 0; }, then persist_credentials
DeleteReset(p) ==
    /\ pc[p] = "del_reset"
    /\ current_id' = IF entries = <<>> THEN 0 ELSE current_id
    /\ pc' = [pc EXCEPT ![p] = "persist"]
    /\ UNCHANGED <<entries, load_balancing_mode, config_file, admin_vars, lock_holder, file_vars,
                   refresh_lock, loc, result, disabled_by>>

DeleteCredential(p) ==
    \/ \E id \in Ids : DeleteBegin(p, id)
    \/ DeleteSelect(p) \/ DeleteReset(p)

----------------------------------------------------------------------------
(* set_priority *)

\* the entry is looked up and its priority is set
SetPriorityBegin(p, id, priority) ==
    /\ pc[p] = "idle"
    /\ LET i == Find(entries, id)
       IN  IF i = 0
           THEN /\ pc' = [pc EXCEPT ![p] = "done"]
                /\ result' = [result EXCEPT ![p] = Err("NotFound")]
                /\ loc' = [loc EXCEPT ![p] =
                            [NoLocals EXCEPT !.id = id, !.path = "set_priority"]]
                /\ UNCHANGED entries
           ELSE /\ entries' = [entries EXCEPT ![i].credentials.priority = priority]
                /\ pc' = [pc EXCEPT ![p] = "prio_select"]
                /\ loc' = [loc EXCEPT ![p] =
                            [NoLocals EXCEPT !.id = id, !.path = "set_priority"]]
                /\ UNCHANGED result
    /\ UNCHANGED <<current_id, load_balancing_mode, config_file, admin_vars, lock_holder, file_vars, refresh_lock, disabled_by>>

\* self.select_highest_priority(); persist_credentials follows
SetPrioritySelect(p) ==
    /\ pc[p] = "prio_select"
    /\ current_id' = SelectHighestPriority(entries, current_id)
    /\ pc' = [pc EXCEPT ![p] = "persist"]
    /\ UNCHANGED <<entries, load_balancing_mode, config_file, admin_vars, lock_holder, file_vars,
                   refresh_lock, loc, result, disabled_by>>

SetPriority(p) ==
    \/ \E id \in Ids \cup {UnknownId}, priority \in 0..MaxPriority :
          SetPriorityBegin(p, id, priority)
    \/ SetPrioritySelect(p)

----------------------------------------------------------------------------
(* set_load_balancing_mode *)

\* the modes a caller may ask for; the last one is not a mode
RequestedModes == {"priority", "balanced", "round_robin"}

\* the check of the mode, then let previous_mode = self.get_load_balancing_mode()
\* and the early return when the mode is the one asked for
ModeBegin(p, mode) ==
    /\ pc[p] = "idle"
    /\ IF mode # "priority" /\ mode # "balanced"
       THEN /\ pc' = [pc EXCEPT ![p] = "done"]
            /\ result' = [result EXCEPT ![p] = Err("InvalidMode")]
            /\ loc' = [loc EXCEPT ![p] = [NoLocals EXCEPT !.mode = mode]]
       ELSE /\ loc' = [loc EXCEPT ![p] =
                        [NoLocals EXCEPT !.mode = mode,
                                         !.previous_mode = load_balancing_mode]]
            /\ IF load_balancing_mode = mode
               THEN /\ pc' = [pc EXCEPT ![p] = "done"]
                    /\ result' = [result EXCEPT ![p] = Ok(0)]
               ELSE /\ pc' = [pc EXCEPT ![p] = "mode_set"]
                    /\ UNCHANGED result
    /\ UNCHANGED <<entries, current_id, load_balancing_mode, config_file, admin_vars, lock_holder, file_vars,
                   refresh_lock, disabled_by>>

\* *self.load_balancing_mode.lock() = mode.clone()
ModeSet(p) ==
    /\ pc[p] = "mode_set"
    /\ load_balancing_mode' = loc[p].mode
    /\ pc' = [pc EXCEPT ![p] = "mode_persist"]
    /\ UNCHANGED <<entries, current_id, config_file, admin_vars, lock_holder, file_vars, refresh_lock, loc, result,
                   disabled_by>>

\* faulty variant of ModePersist: a failure to write leaves the new mode in
\* memory
ModePersistNoRevert(p) ==
    /\ pc[p] = "mode_persist"
    /\ pc' = [pc EXCEPT ![p] = "done"]
    /\ \/ /\ config_file' = IF config_file = NoFile THEN NoFile ELSE loc[p].mode
          /\ result' = [result EXCEPT ![p] = Ok(0)]
       \/ /\ config_file # NoFile
          /\ result' = [result EXCEPT ![p] = Err("PersistFailed")]
          /\ UNCHANGED config_file
    /\ UNCHANGED <<entries, current_id, load_balancing_mode, file_vars, admin_vars, lock_holder,
                   refresh_lock, loc, disabled_by>>

\* persist_load_balancing_mode: nothing to write without a path; otherwise the
\* config is loaded, given the mode and saved, or one of the two fails and the
\* mode in memory is set back to previous_mode
ModePersist(p) ==
    /\ pc[p] = "mode_persist"
    /\ pc' = [pc EXCEPT ![p] = "done"]
    /\ \/ /\ config_file' = IF config_file = NoFile THEN NoFile ELSE loc[p].mode
          /\ result' = [result EXCEPT ![p] = Ok(0)]
          /\ UNCHANGED load_balancing_mode
       \/ /\ config_file # NoFile
          /\ load_balancing_mode' = loc[p].previous_mode
          /\ result' = [result EXCEPT ![p] = Err("PersistFailed")]
          /\ UNCHANGED config_file
    /\ UNCHANGED <<entries, current_id, file_vars, admin_vars, lock_holder, refresh_lock, loc,
                   disabled_by>>

SetLoadBalancingMode(p) ==
    \/ \E mode \in RequestedModes : ModeBegin(p, mode)
    \/ ModeSet(p)
    \/ ModePersist(p)

----------------------------------------------------------------------------
(* Specifications *)

Report ==
    \E id \in Ids \cup {UnknownId} :
        \/ ReportSuccess(id)
        \/ ReportFailure(1, id)
        \/ ReportQuotaExhausted(1, id)

Admin ==
    \E id \in Ids :
        \/ \E disabled \in BOOLEAN : SetDisabled(id, disabled)
        \/ ResetAndEnable(id)

\* Spec: one thread calls the operations on a pool of fixed membership, one
\* after the other
Next ==
    \/ AcquireContext(1)
    \/ GetUsageLimitsFor(1)
    \/ SetPriority(1)
    \/ PersistCredentials(1)
    \/ Return(1)
    \/ pc[1] = "idle" /\ (Report \/ Admin)

Spec == Init /\ [][Next]_vars

\* PoolSpec: as Spec, with add_credential and delete_credential, from the
\* pools whose tokens are valid at construction
PoolInit ==
    /\ Init
    /\ load_balancing_mode = "priority"
    /\ \A i \in DOMAIN entries :
          /\ entries[i].credentials.expires_at = 3600
          /\ entries[i].credentials.priority = i - 1

PoolNext ==
    \/ AcquireContext(1)
    \/ AddCredential(1)
    \/ DeleteCredential(1)
    \/ PersistCredentials(1)
    \/ Return(1)
    \/ pc[1] = "idle" /\ (Report \/ Admin)

PoolSpec == PoolInit /\ [][PoolNext]_vars

\* ModeSpec: one thread changes the mode between its calls of acquire_context
\* and the reports on a pool of fixed membership; the config file has a known
\* path or none
ModeInit ==
    /\ \E creds \in InitLists : entries = New(creds)
    /\ \A i \in DOMAIN entries : entries[i].credentials.priority = i - 1
    /\ current_id = InitialId(entries)
    /\ load_balancing_mode \in {"priority", "balanced"}
    /\ config_file \in {NoFile, load_balancing_mode}
    /\ NoFiles
    /\ refresh_lock = NoProc
    /\ NoBalances
    /\ NoLocksHeld
    /\ pc = [p \in Procs |-> "idle"]
    /\ loc = [p \in Procs |-> NoLocals]
    /\ result = [p \in Procs |-> NoResult]
    /\ disabled_by = [i \in Ids |-> NoReason]

ModeNext ==
    \/ AcquireContext(1)
    \/ SetLoadBalancingMode(1)
    \/ Return(1)
    \/ pc[1] = "idle" /\ (Report \/ Admin)

ModeSpec == ModeInit /\ [][ModeNext]_vars

\* AddSpec: one thread adds and deletes credentials and reports on a pool
\* whose credentials file may hold truncated refresh tokens
AddInitLists ==
    UNION { [1..n -> { [c EXCEPT !.refresh_token = rt] :
                         c \in InitCredentials(1), rt \in {"rt1", TruncatedToken} }] :
            n \in 0..InitEntries }

AddInit ==
    /\ \E creds \in AddInitLists : entries = New(creds)
    /\ \A i \in DOMAIN entries :
          /\ entries[i].credentials.expires_at = 3600
          /\ entries[i].credentials.priority = i - 1
    /\ \A i, j \in DOMAIN entries :
          i # j => entries[i].credentials.refresh_token
                     # entries[j].credentials.refresh_token
    /\ current_id = InitialId(entries)
    /\ load_balancing_mode = "priority"
    /\ config_file = load_balancing_mode
    /\ NoFiles
    /\ refresh_lock = NoProc
    /\ NoBalances
    /\ NoLocksHeld
    /\ pc = [p \in Procs |-> "idle"]
    /\ loc = [p \in Procs |-> NoLocals]
    /\ result = [p \in Procs |-> NoResult]
    /\ disabled_by = [i \in Ids |-> NoReason]

AddNext ==
    \/ AddCredential(1)
    \/ DeleteCredential(1)
    \/ PersistCredentials(1)
    \/ Return(1)
    \/ pc[1] = "idle" /\ (Report \/ Admin)

AddSpec == AddInit /\ [][AddNext]_vars

\* FileSpec: one thread runs the admin calls on a pool that was loaded from a
\* credentials file: in the multi-credential format, which is written back,
\* or as a single object, which is not; a write may fail
FileInit ==
    /\ \E creds \in InitLists : entries = New(creds)
    /\ \A i \in DOMAIN entries : entries[i].credentials.expires_at = 3600
    /\ current_id = InitialId(entries)
    /\ load_balancing_mode = "priority"
    /\ config_file = load_balancing_mode
    /\ \/ write_back = TRUE /\ credentials_file = Some(FileOf(entries))
       \/ /\ write_back = FALSE
          /\ Len(entries) = 1
          /\ credentials_file =
                Some(<<[id |-> 0, credentials |-> entries[1].credentials]>>)
    /\ stats_file = None
    /\ stats_dirty = FALSE
    /\ last_stats_save_at = None
    /\ refresh_lock = NoProc
    /\ NoBalances
    /\ NoLocksHeld
    /\ pc = [p \in Procs |-> "idle"]
    /\ loc = [p \in Procs |-> NoLocals]
    /\ result = [p \in Procs |-> NoResult]
    /\ disabled_by = [i \in Ids |-> NoReason]

FileNext ==
    \/ \E id \in Ids, op \in AdminOps : AdminBegin(1, id, op)
    \/ SetPriority(1)
    \/ AddCredential(1)
    \/ DeleteCredential(1)
    \/ PersistCredentials(1)
    \/ PersistWrite(1)
    \/ PersistWriteFails(1)
    \/ Return(1)

FileSpec == FileInit /\ [][FileNext]_vars

\* FileConcSpec: the threads run set_priority, set_disabled and
\* reset_and_enable concurrently on a pool in the multi-credential format;
\* every write of the credentials file succeeds
FileConcInit ==
    /\ FileInit
    /\ write_back
    /\ Len(entries) = 2
    /\ \A i \in DOMAIN entries : entries[i].credentials.priority = 0

FileConcNext ==
    \E p \in Procs :
        \/ \E id \in Ids, op \in AdminOps : AdminBegin(p, id, op)
        \/ SetPriority(p)
        \/ PersistCredentials(p)
        \/ PersistWrite(p)
        \/ Return(p)

FileConcSpec == FileConcInit /\ [][FileConcNext]_vars

\* ConcSpec: the threads run acquire_context, get_usage_limits_for and
\* add_credential concurrently, interleaved at their critical sections.  No
\* entry is ever disabled here, so the self-heal steps of acquire_context
\* are never enabled and are left out.
ConcNext ==
    \E p \in Procs :
        \/ AcquireBegin(p) \/ AcquireLoop(p) \/ AcquireCurrent(p)
        \/ AcquireSelect(p) \/ AcquireSetCurrent(p) \/ TryEnsureToken(p)
        \/ TryEnsureTokenLocked(p) \/ TryEnsureTokenResponse(p)
        \/ AcquireFailed(p)
        \/ GetUsageLimitsFor(p)
        \/ AddCredential(p)
        \/ PersistCredentials(p)
        \/ Return(p)

ConcSpec == Init /\ [][ConcNext]_vars

----------------------------------------------------------------------------
(* Properties *)

\* the positions inside acquire_context
AcquirePositions ==
    {"acq_loop", "acq_current", "acq_select", "acq_heal", "acq_reselect",
     "acq_set_current", "acq_ensure", "acq_wait", "acq_refreshing",
     "acq_failed"}

\* the positions of a thread whose refresh request is in flight
RefreshingPositions == {"acq_refreshing", "use_refreshing", "add_refreshing"}

\* a token that needs no refresh and can be handed out
TokenValid(c) == ~NeedsRefresh(c) /\ c.access_token

\* the failure accounting of the pool
Accounting(es) ==
    [i \in DOMAIN es |->
        <<es[i].id, es[i].failure_count, es[i].disabled, es[i].disabled_reason>>]

\* C1 (stated as the spec has it; fails in the code): an entry that
\* set_disabled(id, true) or report_quota_exhausted disabled stays disabled,
\* whatever report_failure, report_success and acquire_context calls follow,
\* until set_disabled(id, false) or reset_and_enable re-enables it.
\* disabled_by[id] is Manual / QuotaExceeded from the disabling call up to
\* the next set_disabled(id, false), reset_and_enable or delete.
C1_ManualAndQuotaAreSticky ==
    \A i \in DOMAIN entries :
        disabled_by[entries[i].id] \in {Manual, QuotaExceeded}
            => entries[i].disabled

\* C2 (stated as the spec has it; fails in the code): at most one upstream
\* token-refresh request is in flight at any instant, whichever of
\* acquire_context, get_usage_limits_for and add_credential run concurrently.
C2_OneRefreshInFlight ==
    Cardinality({p \in Procs : pc[p] \in RefreshingPositions}) <= 1

\* C3: in every state reached by report_success, report_failure,
\* report_quota_exhausted, set_disabled, reset_and_enable, add_credential,
\* delete_credential and acquire_context, an entry that is not disabled has
\* no disabled_reason.
C3_EnabledHasNoReason ==
    \A i \in DOMAIN entries :
        ~entries[i].disabled => entries[i].disabled_reason = NoReason

\* C3 witness: the self-heal of an acquire_context call re-enabled an entry
C3_Witness ==
    \E i \in DOMAIN entries :
        /\ entries[i].id \in loc[1].healed
        /\ ~entries[i].disabled
        /\ entries[i].disabled_reason = NoReason

\* what C4 says of a report_failure(id) on the enabled entry i
C4_Failure(i) ==
    IF entries[i].failure_count + 1 < 3
    THEN /\ entries'[i] = [entries[i] EXCEPT !.failure_count = @ + 1]
         /\ ~entries'[i].disabled
    ELSE /\ entries'[i].disabled
         /\ entries'[i].disabled_reason = TooManyFailures
         /\ entries'[i].failure_count = 3

\* C4: on an enabled entry the first and the second report_failure since the
\* count was 0 leave the entry enabled, the third disables it with reason
\* TooManyFailures; a report_success resets the count to 0 and leaves the
\* entry enabled.
C4_ThirdFailureDisables ==
    [][\A id \in Ids :
         LET i == Find(entries, id)
         IN  (i # 0 /\ ~entries[i].disabled /\ pc[1] = "idle") =>
               /\ ReportFailure(1, id) => C4_Failure(i)
               /\ ReportSuccess(id) =>
                     /\ entries'[i].failure_count = 0
                     /\ ~entries'[i].disabled
                     /\ entries'[i].disabled_reason = NoReason]_vars

\* C4 witness: an entry that had a success was disabled by its third failure
C4_Witness ==
    \E i \in DOMAIN entries :
        /\ entries[i].disabled
        /\ entries[i].disabled_reason = TooManyFailures
        /\ entries[i].failure_count = 3
        /\ entries[i].success_count = 1
        /\ disabled_by[entries[i].id] = NoReason

\* no entry is enabled and some entry was disabled for its failures
C5_Pre(es) ==
    /\ \A i \in DOMAIN es : es[i].disabled
    /\ \E i \in DOMAIN es : es[i].disabled_reason = TooManyFailures

\* the call does not pick a credential or end before the self-heal
C5_ReachesHeal ==
    (C5_Pre(entries) /\ (pc[1] \in AcquirePositions \/ pc'[1] = "acq_loop"))
        => pc'[1] \in {"acq_loop", "acq_current", "acq_select", "acq_heal",
                       "acq_reselect"}

\* the self-heal re-enables exactly the TooManyFailures entries
C5_Heals ==
    (C5_Pre(entries) /\ pc[1] = "acq_heal") =>
        /\ pc'[1] = "acq_reselect"
        /\ DOMAIN entries' = DOMAIN entries
        /\ \A i \in DOMAIN entries :
              entries'[i] =
                IF entries[i].disabled_reason = TooManyFailures
                THEN [entries[i] EXCEPT !.disabled = FALSE,
                                        !.disabled_reason = NoReason,
                                        !.failure_count = 0]
                ELSE entries[i]

\* a call that healed returns one of the healed entries when their tokens
\* are valid
C5_Returns ==
    (/\ pc[1] = "done"
     /\ loc[1].healed # {}
     /\ \A i \in DOMAIN entries :
            entries[i].id \in loc[1].healed
                => TokenValid(entries[i].credentials))
        => /\ result[1].status = "ok"
           /\ result[1].id \in loc[1].healed

\* C5: an acquire_context call that finds no enabled entry and at least one
\* TooManyFailures entry re-enables exactly the TooManyFailures entries
\* (disabled false, reason cleared, failure_count 0), leaves the Manual and
\* QuotaExceeded entries as they are, and returns a context bound to one of
\* the re-enabled entries when their tokens are valid.
C5_SelfHeal ==
    [][C5_ReachesHeal /\ C5_Heals /\ C5_Returns']_vars

\* C5 witness: a call healed, returned a healed entry, and an entry that was
\* disabled by hand or for its quota is still disabled
C5_Witness ==
    /\ pc[1] = "done"
    /\ loc[1].healed # {}
    /\ result[1].status = "ok"
    /\ result[1].id \in loc[1].healed
    /\ \E i \in DOMAIN entries :
          /\ entries[i].disabled
          /\ entries[i].disabled_reason \in {Manual, QuotaExceeded}

\* the pool is not empty, every entry is disabled, none for its failures
C6_Pre ==
    /\ entries # <<>>
    /\ \A i \in DOMAIN entries :
          /\ entries[i].disabled
          /\ entries[i].disabled_reason # TooManyFailures

\* C6: on a non-empty pool whose entries are all disabled, none with reason
\* TooManyFailures, acquire_context returns the error "all credentials
\* disabled" and leaves disabled, disabled_reason and failure_count of every
\* entry and current_id as they were.
C6_AllDisabledIsAnError ==
    [][(C6_Pre /\ (pc[1] \in AcquirePositions \/ pc'[1] = "acq_loop")) =>
          /\ entries' = entries
          /\ current_id' = current_id
          /\ pc'[1] \in {"acq_loop", "acq_current", "acq_select", "acq_heal",
                         "done"}
          /\ pc'[1] = "done" => result'[1] = Err("AllDisabled")]_vars

\* C6 witness: the call returned the error on a pool of two disabled entries,
\* one disabled by hand and one for its quota
C6_Witness ==
    /\ pc[1] = "done"
    /\ result[1] = Err("AllDisabled")
    /\ \E i, j \in DOMAIN entries :
          /\ entries[i].disabled /\ entries[i].disabled_reason = Manual
          /\ entries[j].disabled /\ entries[j].disabled_reason = QuotaExceeded

\* a step of a report or of an admin call that is one critical section: the
\* thread is between two calls and stays there, or the bool of a report is
\* returned to it
C7_ReportOrAdmin ==
    /\ pc[1] = "idle"
    /\ pc'[1] = "idle" \/ (pc'[1] = "done" /\ result'[1].status = "returned")

\* C7: no step of acquire_context other than its self-heal, and no step of
\* get_usage_limits_for, changes failure_count, disabled or disabled_reason
\* of any entry, the steps that follow a failed token acquisition or refresh
\* included; a failure_count grows, and an entry becomes disabled, only in a
\* step of a report or of an admin call.
C7_RefreshFailureIsNotCounted ==
    [][/\ (pc[1] # "acq_heal" /\ ~C7_ReportOrAdmin)
            => Accounting(entries') = Accounting(entries)
       /\ (\E i \in DOMAIN entries :
              \/ entries'[i].failure_count > entries[i].failure_count
              \/ entries'[i].disabled /\ ~entries[i].disabled)
            => C7_ReportOrAdmin]_vars

\* C7 witness: every credential failed to give a token, and an entry that
\* has two reported failures is still enabled with its two failures
C7_Witness ==
    /\ pc[1] = "done"
    /\ result[1] = Err("NoValidToken")
    /\ loc[1].tried_count >= 1
    /\ \E i \in DOMAIN entries :
          /\ entries[i].id \in {loc[1].tried_ids[k] :
                                    k \in DOMAIN loc[1].tried_ids}
          /\ entries[i].failure_count = 2
          /\ ~entries[i].disabled

\* C8 (stated as the spec has it; fails in the code): in a pool of two
\* enabled credentials A and B where A is tried first, A's token is expired
\* and is not refreshed, and B's token is valid, acquire_context returns a
\* context bound to B, in priority mode and in balanced mode.
C8_FallsOverToTheValidCredential ==
    (/\ pc[1] = "done"
     /\ Len(entries) = 2
     /\ loc[1].tried_ids # <<>>)
        => \A a, b \in DOMAIN entries :
              (/\ a # b
               /\ entries[a].id = loc[1].tried_ids[1]
               /\ ~entries[a].disabled
               /\ ~entries[b].disabled
               /\ IsTokenExpired(entries[a].credentials)
               /\ TokenValid(entries[b].credentials))
                  => result[1] = Ok(entries[b].id)

\* C9 (stated as the spec has it; fails in the code): the credentials one
\* acquire_context call tries are pairwise distinct, and the call returns
\* the error "no valid token" only after it tried every enabled credential.
C9_TriesEachCredentialOnce ==
    /\ \A j, k \in DOMAIN loc[1].tried_ids :
          j # k => loc[1].tried_ids[j] # loc[1].tried_ids[k]
    /\ (pc[1] = "done" /\ result[1] = Err("NoValidToken"))
          => \A i \in DOMAIN entries :
                ~entries[i].disabled
                    => \E k \in DOMAIN loc[1].tried_ids :
                          loc[1].tried_ids[k] = entries[i].id

\* the acquire_context calls that returned a token they refreshed themselves
Refreshers(id) ==
    {p \in Procs : /\ pc[p] = "done"
                   /\ result[p] = Ok(id)
                   /\ loc[p].tried_ids # <<>>
                   /\ loc[p].path = "refreshed"}

\* C10: no caller sends a refresh request for a credential whose stored token
\* is valid for more than 10 minutes: a caller of acquire_context that saw
\* the token expired or expiring and passes the refresh lock after another
\* caller's refresh succeeded re-reads the entry and returns the refreshed
\* token, so of the callers that saw the same token expired one refreshes.
C10_RefreshIsCoalesced ==
    [][\A p \in Procs :
         LET i == Find(entries, loc[p].id)
         IN  /\ (pc[p] # pc'[p] /\ pc'[p] \in {"acq_refreshing", "use_refreshing"})
                    => i # 0 /\ NeedsRefresh(entries[i].credentials)
             /\ (/\ pc[p] = "acq_wait"
                 /\ pc'[p] # "acq_wait"
                 /\ i # 0
                 /\ TokenValid(entries[i].credentials))
                    => /\ pc'[p] = "done"
                       /\ result'[p] = Ok(loc[p].id)
                       /\ loc'[p].credentials = entries[i].credentials
                       /\ loc'[p].path = "coalesced"
                       /\ entries' = entries
             /\ \A id \in Ids : Cardinality(Refreshers(id)') <= 1]_vars

\* C10 witness: two callers saw the token of the same credential expired, one
\* refreshed it and the other returned the refreshed token
C10_Witness ==
    \E p, q \in Procs :
        /\ p # q
        /\ pc[p] = "done" /\ pc[q] = "done"
        /\ result[p] = result[q]
        /\ result[p].status = "ok"
        /\ loc[p].path = "refreshed"
        /\ loc[q].path = "coalesced"
        /\ loc[q].tried_ids # <<>>
        /\ loc[p].credentials = loc[q].credentials

\* C11 (stated as the spec has it; fails in the code): the ids of the entries
\* are pairwise distinct in every pool state, whatever add_credential and
\* delete_credential calls ran, two concurrent add_credential calls included.
C11_IdsAreDistinct ==
    \A i, j \in DOMAIN entries : i # j => entries[i].id # entries[j].id

\* C12 (stated as the spec has it; fails in the code): whenever no
\* delete_credential call is under way, current_id is 0 or the id of an entry
\* of the pool, enabled or disabled.
C12_CurrentIdNamesAnEntry ==
    (pc[1] \in {"idle", "done"} /\ current_id # 0)
        => \E i \in DOMAIN entries : entries[i].id = current_id

\* C13 (stated as the spec has it; fails in the code): once
\* delete_credential(id) succeeded, no later pool state holds an entry with
\* that id, whatever calls follow, add_credential included.
C13_DeletedIdNeverReturns ==
    \A i \in DOMAIN entries : disabled_by[entries[i].id] # Deleted

\* what C14 says of a delete_credential(id) call that starts in this state
C14_Delete(id) ==
    LET i == Find(entries, id)
    IN  IF i # 0 /\ entries[i].disabled
        THEN /\ pc'[1] \in {"del_select", "del_reset"}
             /\ Len(entries') = Len(entries) - 1
             /\ \A j \in DOMAIN entries' : entries'[j].id # id
        ELSE /\ pc'[1] = "done"
             /\ result'[1].status = "err"
             /\ entries' = entries
             /\ current_id' = current_id
             /\ ~loc'[1].persisted

\* C14: delete_credential(id) removes an entry only if it exists and is
\* disabled; with an unknown id or an enabled entry it returns an error,
\* leaves entries and current_id unchanged and does not write the
\* credentials file; an entry leaves the pool only this way.
C14_DeleteOnlyDisabled ==
    [][/\ \A id \in Ids : DeleteBegin(1, id) => C14_Delete(id)
       /\ \A i \in DOMAIN entries :
            (\A j \in DOMAIN entries' : entries'[j].id # entries[i].id)
                => /\ entries[i].disabled
                   /\ pc[1] = "idle"
                   /\ pc'[1] \in {"del_select", "del_reset"}
                   /\ loc'[1].id = entries[i].id]_vars

\* C14 witness: delete_credential on an enabled entry returned its error
C14_Witness ==
    /\ pc[1] = "done"
    /\ result[1] = Err("NotDisabled")
    /\ \E i \in DOMAIN entries : ~entries[i].disabled
    /\ \E i \in DOMAIN entries : entries[i].disabled

\* the entries other than the one with this id are left as they are
C15_Frame(id) ==
    /\ DOMAIN entries' = DOMAIN entries
    /\ \A j \in DOMAIN entries :
          entries[j].id # id => entries'[j] = entries[j]

\* C15: report_success(X), report_failure(X) and report_quota_exhausted(X)
\* change the runtime fields of the entry with id X and of no other entry,
\* wherever current_id points: the success and the failure are counted on
\* the entry X, and every other entry is left as it is.
C15_ReportsTouchTheirEntryOnly ==
    [][\A id \in Ids :
         LET i == Find(entries, id)
         IN  /\ ReportSuccess(id) =>
                  /\ C15_Frame(id)
                  /\ i # 0 => entries'[i].success_count
                                 = entries[i].success_count + 1
             /\ ReportFailure(1, id) =>
                  /\ C15_Frame(id)
                  /\ i # 0 => entries'[i].failure_count
                                 = entries[i].failure_count + 1
             /\ ReportQuotaExhausted(1, id) =>
                  /\ C15_Frame(id)
                  /\ i # 0 => entries'[i].disabled]_vars

\* C15 witness: in a pool of two enabled entries the entry current_id does
\* not name carries a reported success and two reported failures, the
\* current entry none
C15_Witness ==
    /\ pc[1] = "idle"
    /\ \E i, j \in DOMAIN entries :
          /\ entries[i].id = current_id
          /\ entries[j].id # current_id
          /\ ~entries[i].disabled /\ ~entries[j].disabled
          /\ entries[i].failure_count = 0 /\ entries[i].success_count = 0
          /\ entries[j].failure_count = 2 /\ entries[j].success_count = 1

\* priority mode: the call takes the entry current_id names when that entry
\* is not disabled, whatever the priorities of the other entries
C16_Sticky ==
    /\ (pc[1] = "acq_loop" /\ pc'[1] # "done" /\ load_balancing_mode # "balanced")
          => pc'[1] = "acq_current"
    /\ (pc[1] = "acq_current"
        /\ \E i \in DOMAIN entries :
              entries[i].id = current_id /\ ~entries[i].disabled)
          => /\ pc'[1] = "acq_ensure"
             /\ loc'[1].id = current_id
             /\ current_id' = current_id

\* balanced mode: the call does not look at current_id; it takes the first
\* enabled entry that minimises (success_count, priority)
C16_Reselects ==
    /\ (pc[1] = "acq_loop" /\ pc'[1] # "done" /\ load_balancing_mode = "balanced")
          => pc'[1] = "acq_select"
    /\ (pc[1] = "acq_select" /\ load_balancing_mode = "balanced"
        /\ Available(entries) # {})
          => /\ pc'[1] = "acq_set_current"
             /\ \E i \in Available(entries) :
                   /\ loc'[1].id = entries[i].id
                   /\ \A j \in Available(entries) :
                         /\ ~KeyLess(entries[j], entries[i])
                         /\ (j < i => KeyLess(entries[i], entries[j]))

\* the entry the call took is the entry the context is bound to when its
\* token is ensured
C16_Binds ==
    (pc[1] \in {"acq_ensure", "acq_wait", "acq_refreshing"} /\ pc'[1] = "done")
        => result'[1] = Ok(loc[1].id)

\* C16: in priority mode acquire_context binds to the entry current_id names
\* whenever that entry is not disabled and its token can be ensured, also
\* when another enabled entry has a smaller priority value; in balanced mode
\* every call re-selects and ignores current_id.
C16_PriorityModeIsSticky ==
    [][C16_Sticky /\ C16_Reselects /\ C16_Binds]_vars

\* C16 witness: a priority-mode call returned the current entry on its first
\* attempt while another enabled entry with a valid token has a smaller
\* priority value
C16_Witness ==
    /\ pc[1] = "done"
    /\ load_balancing_mode = "priority"
    /\ result[1] = Ok(current_id)
    /\ loc[1].tried_ids = <<current_id>>
    /\ \E i, j \in DOMAIN entries :
          /\ entries[i].id = current_id
          /\ ~entries[j].disabled
          /\ TokenValid(entries[j].credentials)
          /\ entries[j].credentials.priority < entries[i].credentials.priority

\* the current entry is the non-disabled entry of smallest priority, the
\* first of them in the order of the pool, when the pool has one
C17_CurrentIsBest ==
    Available(entries) # {} =>
        \E i \in Available(entries) :
            /\ entries[i].id = current_id
            /\ \A j \in Available(entries) :
                 /\ entries[i].credentials.priority <= entries[j].credentials.priority
                 /\ j < i => entries[i].credentials.priority
                                 < entries[j].credentials.priority

\* a step by which a call of set_priority returns
C17_Returns ==
    /\ pc[1] # "done"
    /\ pc'[1] = "done"
    /\ loc'[1].path = "set_priority"

\* C17 as the specification states it: after set_priority(id, p) returns,
\* current_id is the id of the non-disabled entry of smallest priority (the
\* first on ties) whenever a non-disabled entry exists
C17_AfterAnyReturn == [][C17_Returns => C17_CurrentIsBest']_vars

\* C17, amended: set_priority(id, p) on an id of the pool stores p in that entry
\* and returns, with success or with the error of the write of the file, with
\* current_id the id of the non-disabled entry of smallest priority (the first
\* on ties) whenever a non-disabled entry exists; on an unknown id it returns
\* an error and changes nothing; in priority mode an acquire_context that
\* starts with current_id on that entry takes it first and returns its id
\* when the token of the entry can be ensured.
C17_SetPrioritySelectsTheBest ==
    [][ /\ \A id \in Ids \cup {UnknownId}, priority \in 0..MaxPriority :
             SetPriorityBegin(1, id, priority) =>
                 IF \E i \in DOMAIN entries : entries[i].id = id
                 THEN /\ pc'[1] = "prio_select"
                      /\ \A i \in DOMAIN entries :
                           /\ entries'[i].id = entries[i].id
                           /\ entries'[i].credentials.priority =
                                IF entries[i].id = id THEN priority
                                ELSE entries[i].credentials.priority
                 ELSE /\ result'[1] = Err("NotFound")
                      /\ entries' = entries
                      /\ current_id' = current_id
        /\ pc[1] = "prio_select" =>
             /\ pc'[1] = "persist"
             /\ entries' = entries
             /\ C17_CurrentIsBest'
        /\ (pc[1] \in {"persist", "persist_write"}
              /\ loc[1].path = "set_priority") =>
             /\ entries' = entries
             /\ current_id' = current_id
             /\ pc'[1] = "done" =>
                   result'[1] \in {Ok(loc[1].id), Err("PersistFailed")}
        /\ ( /\ pc[1] = "acq_current"
             /\ loc[1].tried_ids = <<>>
             /\ load_balancing_mode = "priority"
             /\ Available(entries) # {}
             /\ C17_CurrentIsBest ) =>
             /\ pc'[1] = "acq_ensure"
             /\ loc'[1].id = current_id
             /\ loc'[1].tried_ids = <<current_id>>
        /\ ( /\ pc[1] \in {"acq_ensure", "acq_wait", "acq_refreshing"}
             /\ Len(loc[1].tried_ids) = 1
             /\ pc'[1] = "done" ) =>
             result'[1] = Ok(loc[1].tried_ids[1])
      ]_vars

\* set_priority has returned after it moved current_id to the entry whose
\* priority it lowered, the second of two non-disabled entries
C17_Witness ==
    /\ pc[1] = "done"
    /\ loc[1].path = "set_priority"
    /\ result[1] = Ok(2)
    /\ Len(entries) = 2
    /\ Available(entries) = {1, 2}
    /\ entries[2].id = 2
    /\ entries[2].credentials.priority < entries[1].credentials.priority
    /\ current_id = 2

\* C18: report_failure(id) and report_quota_exhausted(id) return true if and
\* only if the pool has a non-disabled entry after the call, for the id of an
\* enabled entry, of a disabled entry and for an unknown id.
C18_ReportsReturnWhetherAnyIsEnabled ==
    [][\A id \in Ids \cup {UnknownId} :
         (ReportFailure(1, id) \/ ReportQuotaExhausted(1, id)) =>
             /\ pc'[1] = "done"
             /\ result'[1].status = "returned"
             /\ result'[1].value =
                  (\E i \in DOMAIN entries' : ~entries'[i].disabled)]_vars

\* C18 witness: a report on the last enabled entry of a pool of two has
\* returned false
C18_Witness ==
    /\ pc[1] = "done"
    /\ result[1] = Returned(FALSE)
    /\ Len(entries) = 2
    /\ \A i \in DOMAIN entries : entries[i].disabled
    /\ \E i \in DOMAIN entries : entries[i].disabled_reason = QuotaExceeded
    /\ \E i \in DOMAIN entries : entries[i].disabled_reason = TooManyFailures

\* C19: set_load_balancing_mode(m) rejects an m other than "priority" and
\* "balanced" and leaves the mode as it is; for a valid m, when the write of
\* the config file fails the mode in memory is again the one of before the
\* call and an error is returned, and when the call succeeds the mode in
\* memory is m and so is the mode in the config file, where there is one.
C19_ModeFollowsTheConfigFile ==
    [][ /\ \A m \in RequestedModes :
             ModeBegin(1, m) =>
                 /\ load_balancing_mode' = load_balancing_mode
                 /\ config_file' = config_file
                 /\ loc'[1].mode = m
                 /\ m \notin {"priority", "balanced"} =>
                        pc'[1] = "done" /\ result'[1].status = "err"
                 /\ m \in {"priority", "balanced"} =>
                        loc'[1].previous_mode = load_balancing_mode
        /\ (pc[1] \in {"mode_set", "mode_persist"}) =>
             /\ loc'[1].mode = loc[1].mode
             /\ loc'[1].previous_mode = loc[1].previous_mode
        /\ (pc'[1] = "done" /\ loc'[1].mode \in {"priority", "balanced"}) =>
             \/ /\ result'[1].status = "err"
                /\ load_balancing_mode' = loc'[1].previous_mode
                /\ config_file' = config_file
             \/ /\ result'[1].status = "ok"
                /\ load_balancing_mode' = loc'[1].mode
                /\ config_file' \in {NoFile, loc'[1].mode}
                /\ (config_file' = NoFile) = (config_file = NoFile)
      ]_vars

\* C19 witness: the write of the config file failed and the call returned an
\* error with the mode of before the call, "priority", in memory and in the
\* file, after "balanced" was asked for
C19_Witness ==
    /\ pc[1] = "done"
    /\ loc[1].mode = "balanced"
    /\ loc[1].previous_mode = "priority"
    /\ result[1] = Err("PersistFailed")
    /\ load_balancing_mode = "priority"
    /\ config_file = "priority"

\* the pool has an entry with the refresh token of these credentials
C20_Duplicate(c) ==
    \E i \in DOMAIN entries :
        entries[i].credentials.refresh_token = c.refresh_token

\* the call has returned in its first step, without a refresh request, and
\* the pool is as it was
C20_Refused ==
    /\ pc'[1] = "done"
    /\ result'[1].status = "err"
    /\ entries' = entries
    /\ current_id' = current_id

\* C20 as the specification states it: add_credential with the refresh token
\* of an existing entry fails with "凭据已存在", sends no refresh request and
\* leaves entries, ids and current_id as they are
C20_AnyDuplicateIsReported ==
    [][\A c \in NewCredentials :
         (AddBegin(1, c) /\ C20_Duplicate(c)) =>
             C20_Refused /\ result'[1] = Err("Exists")]_vars

\* C20, amended: add_credential with a refresh token that passes
\* validate_refresh_token and equals the refresh token of an existing entry
\* fails with "凭据已存在", sends no refresh request and leaves entries, ids and
\* current_id as they are; with a refresh token that does not pass the
\* validation it fails with the error of the validation, the rest alike.
C20_ValidDuplicateIsReported ==
    [][\A c \in NewCredentials :
         (AddBegin(1, c) /\ C20_Duplicate(c)) =>
             /\ C20_Refused
             /\ result'[1] = IF c.refresh_token \in GoodTokens
                             THEN Err("Exists") ELSE Err("truncated")]_vars

\* C20 witness: the add of the refresh token of the only entry of the pool
\* was refused as a duplicate
C20_Witness ==
    /\ pc[1] = "done"
    /\ result[1] = Err("Exists")
    /\ Len(entries) = 1
    /\ entries[1].credentials.refresh_token = "rt1"
    /\ current_id = entries[1].id

\* C29 (stated as the spec has it; fails in the code): report_success(id) on
\* an entry in any state, a disabled one included, leaves the entry not
\* disabled, with failure_count 0 and success_count larger by 1.
C29_SuccessActivates ==
    [][\A id \in Ids :
         LET i == Find(entries, id)
         IN  (pc[1] = "idle" /\ i # 0 /\ ReportSuccess(id)
                /\ entries' # entries) =>
                 /\ ~entries'[i].disabled
                 /\ entries'[i].failure_count = 0
                 /\ entries'[i].success_count = entries[i].success_count + 1]_vars

\* C30: report_quota_exhausted(id) on an enabled entry disables it with reason
\* QuotaExceeded, sets its failure_count to 3 and leaves the other entries as
\* they are; current_id becomes the id of the first non-disabled entry of
\* smallest priority if there is one and is left as it is otherwise; on a
\* disabled entry and on an unknown id no entry and not current_id changes.
C30_QuotaExhaustedDisablesAndSwitches ==
    [][\A id \in Ids \cup {UnknownId} :
         ReportQuotaExhausted(1, id) =>
           IF \E i \in DOMAIN entries : entries[i].id = id /\ ~entries[i].disabled
           THEN /\ DOMAIN entries' = DOMAIN entries
                /\ \A i \in DOMAIN entries :
                     IF entries[i].id = id
                     THEN entries'[i] =
                            [entries[i] EXCEPT !.disabled = TRUE,
                                               !.disabled_reason = QuotaExceeded,
                                               !.failure_count = 3]
                     ELSE entries'[i] = entries[i]
                /\ IF \E i \in DOMAIN entries' : ~entries'[i].disabled
                   THEN \E i \in DOMAIN entries' :
                          /\ ~entries'[i].disabled
                          /\ current_id' = entries'[i].id
                          /\ \A j \in DOMAIN entries' :
                               ~entries'[j].disabled =>
                                 /\ entries'[i].credentials.priority
                                      <= entries'[j].credentials.priority
                                 /\ j < i => entries'[i].credentials.priority
                                               < entries'[j].credentials.priority
                   ELSE current_id' = current_id
           ELSE /\ entries' = entries
                /\ current_id' = current_id]_vars

\* C30 witness: the quota report on the first entry has disabled it and moved
\* current_id to the other entry, which has the larger priority value
C30_Witness ==
    /\ pc[1] = "done"
    /\ result[1] = Returned(TRUE)
    /\ Len(entries) = 2
    /\ entries[1].disabled
    /\ entries[1].disabled_reason = QuotaExceeded
    /\ entries[1].failure_count = 3
    /\ entries[1].credentials.priority < entries[2].credentials.priority
    /\ ~entries[2].disabled
    /\ current_id = entries[2].id

\* C21 (stated as the spec has it; fails in the code): in the
\* multi-credential format, whenever no operation is in progress and every
\* write so far succeeded, the credentials file holds the entries of the
\* pool, each with its id and its credentials, also when the mutations ran
\* concurrently.
C21_FileHoldsThePool ==
    (write_back /\ \A p \in Procs : pc[p] \in {"idle", "done"})
        => credentials_file = Some(FileOf(entries))

\* MultiTokenManager::new on the entries of a credentials file that carry
\* their ids: every entry is built enabled, with no disabled reason and with
\* zero counters
Reload(file) ==
    [i \in DOMAIN file |-> NewEntry(file[i].id, file[i].credentials)]

\* C22 (stated as the spec has it; fails in the code): a pool reloaded from
\* the file that persist_credentials wrote has entries with the same id, the
\* same credentials and the same disabled flag as the pool that wrote it, so
\* an entry disabled through set_disabled(id, true) is still disabled after
\* the reload; failure_count and success_count start at zero.
C22_ReloadKeepsDisabled ==
    (write_back /\ pc[1] = "done" /\ loc[1].persisted
        /\ result[1].status = "ok" /\ credentials_file = Some(FileOf(entries)))
        => /\ Len(Reload(credentials_file[1])) = Len(entries)
           /\ \A i \in DOMAIN entries :
                LET r == Reload(credentials_file[1])[i]
                IN  /\ r.id = entries[i].id
                    /\ r.credentials = entries[i].credentials
                    /\ r.disabled = entries[i].disabled
                    /\ r.failure_count = 0
                    /\ r.success_count = 0

\* C23: when the pool was not loaded from a multi-credential file (legacy
\* single-object format, or no credentials path), no step of any pool
\* operation changes the credentials file; persist_credentials returns at
\* once without writing and the operation that called it returns Ok; the
\* change the operation made in memory stands.
C23_LegacyFormatIsNeverWritten ==
    [][ ~write_back =>
            /\ credentials_file' = credentials_file
            /\ write_back' = write_back
            /\ pc[1] = "persist" =>
                    /\ pc'[1] = "done"
                    /\ result'[1] = Ok(loc[1].id)
                    /\ entries' = entries
                    /\ current_id' = current_id ]_vars

\* a mutating operation has returned Ok on a pool in the legacy format: the
\* pool differs from what the file holds
C23_Witness ==
    /\ ~write_back
    /\ pc[1] = "done"
    /\ loc[1].persisted
    /\ result[1].status = "ok"
    /\ credentials_file # None
    /\ \E i \in DOMAIN entries :
            \/ entries[i].disabled
            \/ entries[i].credentials # credentials_file[1][1].credentials

\* the credentials file lists the entries of the pool in order, each with
\* its id and its credentials
C24_FileEqualsPool ==
    /\ credentials_file # None
    /\ Len(credentials_file[1]) = Len(entries)
    /\ \A i \in DOMAIN entries :
            /\ credentials_file[1][i].id = entries[i].id
            /\ credentials_file[1][i].credentials = entries[i].credentials

----------------------------------------------------------------------------
(* The statistics file: save_stats_debounced, save_stats, load_stats, Drop *)

ReportOps == {"report_success", "report_failure", "report_quota_exhausted"}

\* what save_stats writes: success_count of every entry, keyed by id
StatsOf(es) ==
    [i \in DOMAIN es |-> [id |-> es[i].id, success_count |-> es[i].success_count]]

\* faulty variant of LoadStats: the file is ignored
LoadStatsIgnored(file, es) == es

\* load_stats: an entry whose id the file holds takes its success_count
\* from the file, every other entry is left as it was built
LoadStats(file, es) ==
    IF file = None THEN es
    ELSE [i \in DOMAIN es |->
            IF \E k \in DOMAIN file[1] : file[1][k].id = es[i].id
            THEN [es[i] EXCEPT !.success_count =
                    file[1][CHOOSE k \in DOMAIN file[1] :
                                file[1][k].id = es[i].id].success_count]
            ELSE es[i]]

\* faulty variant of ShouldFlush: only the first update is flushed
ShouldFlushOnce(last) == last = None

\* should_flush of save_stats_debounced
ShouldFlush(last) ==
    \/ last = None
    \/ last # None /\ last[1] >= STATS_SAVE_DEBOUNCE

\* the critical section of a report on a pool with a stats path; report_success
\* goes on to save_stats_debounced also for an unknown id, the other two
\* return before it when they changed nothing
ReportBegin(p, id, op) ==
    /\ pc[p] = "idle"
    /\ HasStatsPath
    /\ LET i == Find(entries, id)
           hit == i # 0 /\ (op = "report_quota_exhausted" => ~entries[i].disabled)
           es == IF ~hit THEN entries
                 ELSE [entries EXCEPT ![i] =
                        CASE op = "report_success" -> SucceededEntry(@)
                          [] op = "report_failure" -> FailedEntry(@)
                          [] OTHER -> ExhaustedEntry(@)]
           switch == \/ op = "report_quota_exhausted"
                     \/ /\ op = "report_failure"
                        /\ es[i].failure_count >= MAX_FAILURES_PER_CREDENTIAL
       IN  /\ (hit /\ op = "report_success") =>
                    entries[i].success_count < MaxSuccessCount
           /\ (hit /\ op = "report_failure") =>
                    entries[i].failure_count < MaxFailureCount
           /\ entries' = es
           /\ current_id' = IF hit /\ op # "report_success" /\ switch
                            THEN SwitchedCurrent(es, current_id)
                            ELSE current_id
           /\ disabled_by' = IF hit /\ op = "report_quota_exhausted"
                             THEN [disabled_by EXCEPT ![id] = QuotaExceeded]
                             ELSE disabled_by
           /\ result' = [result EXCEPT ![p] =
                            CASE op = "report_success" -> NoResult
                              [] op = "report_failure" -> Returned(AnyEnabled(es))
                              [] OTHER -> Returned(
                                    IF hit THEN MinByPriority(es, Available(es)) # 0
                                    ELSE AnyEnabled(entries))]
           /\ pc' = [pc EXCEPT ![p] =
                        IF hit \/ op = "report_success" THEN "stats_mark" ELSE "done"]
    /\ loc' = [loc EXCEPT ![p] = [NoLocals EXCEPT !.id = id, !.path = op]]
    /\ UNCHANGED <<load_balancing_mode, config_file, admin_vars, lock_holder, file_vars, refresh_lock>>

\* save_stats_debounced: stats_dirty.store(true)
StatsMark(p) ==
    /\ pc[p] = "stats_mark"
    /\ stats_dirty' = TRUE
    /\ pc' = [pc EXCEPT ![p] = "stats_check"]
    /\ UNCHANGED <<entries, current_id, load_balancing_mode, config_file, admin_vars, lock_holder,
                   write_back, credentials_file, stats_file, last_stats_save_at,
                   refresh_lock, loc, result, disabled_by>>

\* save_stats_debounced: last_stats_save_at is read and save_stats is called
\* or not
StatsCheck(p) ==
    /\ pc[p] = "stats_check"
    /\ pc' = [pc EXCEPT ![p] = IF ShouldFlush(last_stats_save_at)
                               THEN "stats_snapshot" ELSE "done"]
    /\ UNCHANGED <<entries, current_id, load_balancing_mode, config_file, admin_vars, lock_holder,
                   file_vars, refresh_lock, loc, result, disabled_by>>

\* save_stats: the statistics are collected under the entries lock
SaveStatsSnapshot(p) ==
    /\ pc[p] = "stats_snapshot"
    /\ loc' = [loc EXCEPT ![p].snapshot = StatsOf(entries)]
    /\ pc' = [pc EXCEPT ![p] = "stats_write"]
    /\ UNCHANGED <<entries, current_id, load_balancing_mode, config_file, admin_vars, lock_holder,
                   file_vars, refresh_lock, result, disabled_by>>

\* save_stats: the file is written, after the lock was released
SaveStatsWrite(p) ==
    /\ pc[p] = "stats_write"
    /\ stats_file' = Some(loc[p].snapshot)
    /\ pc' = [pc EXCEPT ![p] = "stats_saved"]
    /\ UNCHANGED <<entries, current_id, load_balancing_mode, config_file, admin_vars, lock_holder,
                   write_back, credentials_file, stats_dirty, last_stats_save_at,
                   refresh_lock, loc, result, disabled_by>>

\* save_stats: the write fails; a warning is logged and nothing else is done
SaveStatsWriteFails(p) ==
    /\ pc[p] = "stats_write"
    /\ pc' = [pc EXCEPT ![p] = "done"]
    /\ UNCHANGED <<entries, current_id, load_balancing_mode, config_file, admin_vars, lock_holder,
                   file_vars, refresh_lock, loc, result, disabled_by>>

\* save_stats after the write: last_stats_save_at = Some(Instant::now())
SaveStatsSaved(p) ==
    /\ pc[p] = "stats_saved"
    /\ last_stats_save_at' = Some(0)
    /\ pc' = [pc EXCEPT ![p] = "stats_clear"]
    /\ UNCHANGED <<entries, current_id, load_balancing_mode, config_file, admin_vars, lock_holder,
                   write_back, credentials_file, stats_file, stats_dirty,
                   refresh_lock, loc, result, disabled_by>>

\* save_stats after the write: stats_dirty.store(false)
SaveStatsClear(p) ==
    /\ pc[p] = "stats_clear"
    /\ stats_dirty' = FALSE
    /\ pc' = [pc EXCEPT ![p] = "done"]
    /\ UNCHANGED <<entries, current_id, load_balancing_mode, config_file, admin_vars, lock_holder,
                   write_back, credentials_file, stats_file, last_stats_save_at,
                   refresh_lock, loc, result, disabled_by>>

\* TickSeconds pass; an age of STATS_SAVE_DEBOUNCE or more is not told apart
\* from a larger one.  Tick is taken only by specifications whose actions do
\* not read expires_at.
Tick ==
    /\ last_stats_save_at # None
    /\ last_stats_save_at[1] < STATS_SAVE_DEBOUNCE
    /\ last_stats_save_at' = Some(last_stats_save_at[1] + TickSeconds)
    /\ UNCHANGED <<entries, current_id, load_balancing_mode, config_file, admin_vars, lock_holder,
                   write_back, credentials_file, stats_file, stats_dirty,
                   refresh_lock, pc, loc, result, disabled_by>>

\* Drop for MultiTokenManager: no operation is running any more; save_stats
\* is called if the dirty flag is set, and its write succeeds (ok) or fails
Drop(ok) ==
    /\ \A p \in Procs : pc[p] \in {"idle", "done"}
    /\ HasStatsPath
    /\ IF stats_dirty /\ ok
       THEN /\ stats_file' = Some(StatsOf(entries))
            /\ last_stats_save_at' = Some(0)
            /\ stats_dirty' = FALSE
       ELSE UNCHANGED stats_vars
    /\ pc' = [p \in Procs |-> "dropped"]
    /\ UNCHANGED <<entries, current_id, load_balancing_mode, config_file, admin_vars, lock_holder,
                   write_back, credentials_file, refresh_lock, loc, result,
                   disabled_by>>

\* the pool after construction from a multi-credential file, without a
\* stats file next to it or with one that load_stats applied
StatsInit ==
    /\ \E creds \in InitLists :
        /\ creds # <<>>
        /\ \A i \in DOMAIN creds : creds[i].expires_at = 3600
        /\ \/ /\ stats_file = None
              /\ entries = New(creds)
              /\ last_stats_save_at = None
           \/ /\ \E counts \in [DOMAIN creds -> 0..MaxSuccessCount] :
                    stats_file = Some([i \in DOMAIN creds |->
                                    [id |-> i, success_count |-> counts[i]]])
              /\ entries = LoadStats(stats_file, New(creds))
              /\ last_stats_save_at = Some(0)
    /\ current_id = InitialId(entries)
    /\ load_balancing_mode = "priority"
    /\ config_file = load_balancing_mode
    /\ write_back = TRUE
    /\ credentials_file = Some(FileOf(entries))
    /\ stats_dirty = FALSE
    /\ refresh_lock = NoProc
    /\ NoBalances
    /\ NoLocksHeld
    /\ pc = [p \in Procs |-> "idle"]
    /\ loc = [p \in Procs |-> NoLocals]
    /\ result = [p \in Procs |-> NoResult]
    /\ disabled_by = [i \in Ids |-> NoReason]

\* reports one after another, every write may fail
StatsNext ==
    \/ \E id \in Ids \cup {UnknownId}, op \in ReportOps : ReportBegin(1, id, op)
    \/ StatsMark(1)
    \/ StatsCheck(1)
    \/ SaveStatsSnapshot(1)
    \/ SaveStatsWrite(1)
    \/ SaveStatsWriteFails(1)
    \/ SaveStatsSaved(1)
    \/ SaveStatsClear(1)
    \/ Return(1)
    \/ Tick
    \/ \E ok \in BOOLEAN : Drop(ok)

StatsSpec == StatsInit /\ [][StatsNext]_vars

\* a pool of one credential that was never used
StatsConcInit ==
    /\ StatsInit
    /\ Len(entries) = 1
    /\ entries[1].credentials.priority = 0
    /\ entries[1].success_count = 0

\* concurrent report_success and report_failure, every write succeeds
StatsConcNext ==
    \/ \E p \in Procs :
        \/ \E id \in Ids, op \in {"report_success", "report_failure"} :
                ReportBegin(p, id, op)
        \/ StatsMark(p)
        \/ StatsCheck(p)
        \/ SaveStatsSnapshot(p)
        \/ SaveStatsWrite(p)
        \/ SaveStatsSaved(p)
        \/ SaveStatsClear(p)
        \/ Return(p)
    \/ Tick
    \/ Drop(TRUE)

StatsConcSpec == StatsConcInit /\ [][StatsConcNext]_vars

\* C26 (stated as the spec has it; fails in the code): when every write of
\* the stats file succeeds, after the pool was dropped the stats file holds
\* the final success_count of every entry, whatever the interleaving of the
\* concurrent report_success and report_failure calls before: a pool built
\* from the credentials and the stats file has the success counts of the
\* dropped one.
C26_DropLosesNoStatistics ==
    pc[1] = "dropped" =>
        \A i \in DOMAIN entries :
            LoadStats(stats_file, Reload(FileOf(entries)))[i].success_count
                = entries[i].success_count

\* the stats file holds the success_count of every entry of the pool
C25_OnDisk ==
    /\ stats_file # None
    /\ stats_file[1] = [i \in DOMAIN entries |->
                            [id |-> entries[i].id,
                             success_count |-> entries[i].success_count]]

----------------------------------------------------------------------------
(* AdminService::get_balance (src/src/admin/service.rs) *)

\* the BalanceResponse values the upstream may answer with
Balances == 1..MaxBalance

Balance(data) == [status |-> "balance", data |-> data]

\* faulty variant of CacheFresh: an entry never expires
CacheFreshForever(cached) == cached # None

\* the cache holds an entry and (now - cached_at) < BALANCE_CACHE_TTL_SECS
CacheFresh(cached) ==
    /\ cached # None
    /\ cached[1].cached_at < BALANCE_CACHE_TTL_SECS

\* get_balance, the lookup under the cache lock: a fresh cache entry is
\* returned at once, otherwise the call goes on to fetch_balance
GetBalanceBegin(p, id) ==
    /\ pc[p] = "idle"
    /\ balance_call[p] = None
    /\ IF CacheFresh(balance_cache[id])
       THEN /\ pc' = [pc EXCEPT ![p] = "done"]
            /\ result' = [result EXCEPT ![p] = Balance(balance_cache[id][1].data)]
            /\ loc' = [loc EXCEPT ![p] = [NoLocals EXCEPT !.id = id,
                                                          !.path = "cached"]]
            /\ UNCHANGED balance_call
       ELSE /\ balance_call' = [balance_call EXCEPT ![p] = Some(id)]
            /\ UNCHANGED <<pc, result, loc>>
    /\ UNCHANGED <<entries, current_id, load_balancing_mode, config_file,
                   file_vars, balance_cache, lock_holder, refresh_lock,
                   disabled_by>>

\* fetch_balance calls get_usage_limits_for(id)
FetchBalance(p) ==
    /\ balance_call[p] # None
    /\ UsageBegin(p, balance_call[p][1])

\* get_balance after fetch_balance returned: an error is passed on by `?`,
\* a usage response becomes a BalanceResponse that is stored with
\* cached_at = now and returned
GetBalanceStore(p) ==
    /\ pc[p] = "done"
    /\ balance_call[p] # None
    /\ balance_call' = [balance_call EXCEPT ![p] = None]
    /\ IF result[p].status = "ok"
       THEN \E data \in Balances :
                /\ balance_cache' = [balance_cache EXCEPT ![balance_call[p][1]] =
                                        Some([cached_at |-> 0, data |-> data])]
                /\ result' = [result EXCEPT ![p] = Balance(data)]
       ELSE UNCHANGED <<balance_cache, result>>
    /\ UNCHANGED <<entries, current_id, load_balancing_mode, config_file,
                   file_vars, lock_holder, refresh_lock, pc, loc, disabled_by>>

\* the caller of an operation that is not inside get_balance takes the result
BalanceReturn(p) ==
    /\ balance_call[p] = None
    /\ Return(p)

\* BalanceTickSeconds pass: every cached_at and every expires_at is that much
\* further in the past; an age of BALANCE_CACHE_TTL_SECS or more is not told
\* apart from a larger one, nor an expiry instant that has passed from an
\* earlier one
BalanceTick ==
    /\ \/ \E id \in DOMAIN balance_cache : CacheFresh(balance_cache[id])
       \/ \E i \in DOMAIN entries : entries[i].credentials.expires_at > 0
    /\ balance_cache' =
            [id \in DOMAIN balance_cache |->
                IF CacheFresh(balance_cache[id])
                THEN Some([balance_cache[id][1] EXCEPT
                            !.cached_at = @ + BalanceTickSeconds])
                ELSE balance_cache[id]]
    /\ entries' =
            [i \in DOMAIN entries |->
                IF entries[i].credentials.expires_at > 0
                THEN [entries[i] EXCEPT !.credentials.expires_at =
                        IF @ > BalanceTickSeconds THEN @ - BalanceTickSeconds ELSE 0]
                ELSE entries[i]]
    /\ UNCHANGED <<current_id, load_balancing_mode, config_file, file_vars,
                   balance_call, lock_holder, refresh_lock, pc, loc, result,
                   disabled_by>>

\* a pool of one credential without a credentials path
BalanceInit ==
    /\ Init
    /\ Len(entries) = 1
    /\ entries[1].credentials.priority = 0
    /\ load_balancing_mode = "priority"

\* get_balance calls of one thread
BalanceNext ==
    \/ \E id \in Ids \cup {UnknownId} : GetBalanceBegin(1, id)
    \/ FetchBalance(1)
    \/ UsageLocked(1)
    \/ UsageResponse(1)
    \/ UsageReread(1)
    \/ UsageCalled(1)
    \/ GetBalanceStore(1)
    \/ BalanceReturn(1)
    \/ BalanceTick

BalanceSpec == BalanceInit /\ [][BalanceNext]_vars

\* C27: get_balance(id) returns the cached balance, without calling the
\* upstream and without touching the cache, exactly when the cache holds an
\* entry for id that is less than 300 s old; otherwise it calls
\* get_usage_limits_for(id) once, and when that call has returned it stores
\* the balance with cached_at = now and returns it if the call succeeded,
\* and returns the error with the cache unchanged if it failed.
C27_BalanceCache ==
    [][ pc'[1] # pc[1] \/ balance_call'[1] # balance_call[1] =>
        /\ (pc[1] = "idle" /\ balance_call[1] = None) =>
                \/ /\ pc'[1] = "done"
                   /\ balance_call'[1] = None
                   /\ balance_cache[loc'[1].id] # None
                   /\ balance_cache[loc'[1].id][1].cached_at < 300
                   /\ result'[1] = Balance(balance_cache[loc'[1].id][1].data)
                   /\ balance_cache' = balance_cache
                   /\ entries' = entries
                \/ /\ pc'[1] = "idle"
                   /\ balance_call'[1] # None
                   /\ \/ balance_cache[balance_call'[1][1]] = None
                      \/ balance_cache[balance_call'[1][1]][1].cached_at >= 300
                   /\ balance_cache' = balance_cache
                   /\ entries' = entries
        /\ (pc[1] # "done" /\ balance_call[1] # None) =>
                /\ balance_call' = balance_call
                /\ balance_cache' = balance_cache
                /\ pc'[1] # "idle"
                /\ (pc[1] = "idle" /\ pc'[1] # "done") =>
                        loc'[1].id = balance_call[1][1]
        /\ (pc[1] = "done" /\ balance_call[1] # None) =>
                /\ balance_call'[1] = None
                /\ pc'[1] = "done"
                /\ IF result[1].status = "ok"
                   THEN /\ result'[1].status = "balance"
                        /\ balance_cache' =
                            [balance_cache EXCEPT ![balance_call[1][1]] =
                                Some([cached_at |-> 0, data |-> result'[1].data])]
                   ELSE /\ result' = result
                        /\ result[1].status = "err"
                        /\ balance_cache' = balance_cache ]_vars

\* get_balance has returned a cached balance that was stored
\* BalanceTickSeconds or more ago
C27_Witness ==
    /\ pc[1] = "done"
    /\ loc[1].path = "cached"
    /\ result[1].status = "balance"
    /\ balance_cache[loc[1].id] # None
    /\ balance_cache[loc[1].id][1].cached_at >= BalanceTickSeconds
    /\ balance_cache[loc[1].id][1].cached_at < BALANCE_CACHE_TTL_SECS
    /\ result[1].data = balance_cache[loc[1].id][1].data

\* an entry with its failure count cleared, enabled, without a disabled
\* reason, and otherwise as it is
C28_Cleared(e) ==
    [e EXCEPT !.failure_count = 0, !.disabled = FALSE,
              !.disabled_reason = NoReason]

\* the step changes no entry but the one with this id
C28_OthersUnchanged(id) ==
    /\ Len(entries') = Len(entries)
    /\ \A j \in DOMAIN entries : entries[j].id # id => entries'[j] = entries[j]

\* C28: whatever state an entry is in, set_disabled(id, true) followed by
\* set_disabled(id, false) and reset_and_enable(id) leaves it with
\* failure_count 0, enabled and without a disabled reason, and leaves every
\* other entry as it was: each of the three calls changes the entry of id
\* only, set_disabled(id, true) disables it with reason Manual, each of the
\* other two leaves it cleared, and the three changes applied in a row to
\* any entry of any reachable pool give the cleared entry.
C28_DisableEnableReset ==
    /\ [](\A i \in DOMAIN entries :
            ResetEntry(SetDisabledEntry(SetDisabledEntry(entries[i], TRUE), FALSE))
                = C28_Cleared(entries[i]))
    /\ [][ \A id \in Ids :
            LET i == Find(entries, id)
            IN  /\ SetDisabled(id, TRUE) =>
                    /\ C28_OthersUnchanged(id)
                    /\ i # 0 => entries'[i] =
                                    [entries[i] EXCEPT !.disabled = TRUE,
                                                       !.disabled_reason = Manual]
                /\ SetDisabled(id, FALSE) =>
                    /\ C28_OthersUnchanged(id)
                    /\ i # 0 => entries'[i] = C28_Cleared(entries[i])
                /\ ResetAndEnable(id) =>
                    /\ C28_OthersUnchanged(id)
                    /\ i # 0 => entries'[i] = C28_Cleared(entries[i]) ]_vars

\* set_disabled(id, true) has acted on an entry that three failures had
\* disabled, next to an entry that is disabled for another reason
C28_Witness ==
    \E i, j \in DOMAIN entries :
        /\ i # j
        /\ entries[i].disabled
        /\ entries[i].disabled_reason = Manual
        /\ entries[i].failure_count = MAX_FAILURES_PER_CREDENTIAL
        /\ disabled_by[entries[i].id] = Manual
        /\ entries[j].disabled
        /\ entries[j].disabled_reason # Manual

\* n is what the claim says select_next_credential returns on es in this
\* mode: 0 (none) exactly when no entry is non-disabled, else the index of a
\* non-disabled entry that no non-disabled entry beats in the order of the
\* mode, and the first such entry
C31_Selected(es, mode, n) ==
    LET better(a, b) ==
            IF mode = "balanced"
            THEN \/ a.success_count < b.success_count
                 \/ /\ a.success_count = b.success_count
                    /\ a.credentials.priority < b.credentials.priority
            ELSE a.credentials.priority < b.credentials.priority
        minimal(i) == /\ ~es[i].disabled
                      /\ \A j \in DOMAIN es :
                            ~es[j].disabled => ~better(es[j], es[i])
    IN  /\ (n = 0) <=> (\A i \in DOMAIN es : es[i].disabled)
        /\ n # 0 => /\ n \in DOMAIN es
                    /\ minimal(n)
                    /\ \A j \in DOMAIN es : minimal(j) => n <= j

----------------------------------------------------------------------------
(* MultiTokenManager::new on credentials that may carry ids *)

\* the credential lists handed to new(): each credential with Some(id) or
\* without an id
InputLists ==
    UNION { [1..n -> [id : {None} \cup {Some(i) : i \in Ids},
                      credentials : InitCredentials(1)]] :
            n \in 0..InitEntries }

\* credentials.iter().filter_map(|c| c.id).max().unwrap_or(0)
MaxExistingId(input) ==
    LET ids == {input[i].id[1] : i \in {j \in DOMAIN input : input[j].id # None}}
    IN  IF ids = {} THEN 0 ELSE Max(ids)

\* faulty variant of AssignedId: a credential without an id takes its
\* position in the list
AssignedIdByPosition(input, i) ==
    IF input[i].id # None THEN input[i].id[1] ELSE i

\* cred.id.unwrap_or_else(..): next_id starts at the largest id + 1 and
\* grows by one with each credential that had none
AssignedId(input, i) ==
    IF input[i].id # None THEN input[i].id[1]
    ELSE MaxExistingId(input)
            + Cardinality({j \in 1..i : input[j].id = None})

\* the entries new() builds
NewFrom(input) ==
    [i \in DOMAIN input |-> NewEntry(AssignedId(input, i), input[i].credentials)]

\* new() is about to run on the list in loc[1].snapshot
ConstructInit ==
    /\ entries = <<>>
    /\ current_id = 0
    /\ load_balancing_mode \in {"priority", "balanced"}
    /\ config_file = load_balancing_mode
    /\ NoFiles
    /\ refresh_lock = NoProc
    /\ NoBalances
    /\ NoLocksHeld
    /\ pc = [p \in Procs |-> IF p = 1 THEN "new" ELSE "idle"]
    /\ \E input \in InputLists :
            loc = [p \in Procs |-> IF p = 1 THEN [NoLocals EXCEPT !.snapshot = input]
                                   ELSE NoLocals]
    /\ result = [p \in Procs |-> NoResult]
    /\ disabled_by = [i \in Ids |-> NoReason]

\* new(): the entries are built, duplicate ids make it bail, current_id is
\* the first entry of smallest priority; without a credentials path
\* persist_credentials and load_stats return at once
Construct(p) ==
    /\ pc[p] = "new"
    /\ pc' = [pc EXCEPT ![p] = "done"]
    /\ LET es == NewFrom(loc[p].snapshot)
       IN  IF \E i, j \in DOMAIN es : i # j /\ es[i].id = es[j].id
           THEN /\ result' = [result EXCEPT ![p] = Err("DuplicateIds")]
                /\ UNCHANGED <<entries, current_id>>
           ELSE /\ entries' = es
                /\ current_id' = InitialId(es)
                /\ result' = [result EXCEPT ![p] = Ok(InitialId(es))]
    /\ UNCHANGED <<load_balancing_mode, config_file, admin_vars, lock_holder, file_vars,
                   refresh_lock, loc, disabled_by>>

ConstructNext == Construct(1)

ConstructSpec == ConstructInit /\ [][ConstructNext]_vars

\* C32: when new() succeeds, an entry keeps the id its credential carried;
\* the credentials without an id receive, in ingest order, the ids
\* max + 1, max + 2, ... where max is the largest id a credential carried
\* (0 when none did); every entry is enabled with failure_count 0 and holds
\* its credential; current_id is the id of the first entry in ingest order
\* with the smallest priority value, and 0 for an empty pool.
C32_Construction ==
    [][ (pc[1] = "new" /\ pc'[1] = "done" /\ result'[1].status = "ok") =>
        LET input == loc[1].snapshot
            given == {i \in DOMAIN input : input[i].id # None}
            fresh == DOMAIN input \ given
            mx == IF given = {} THEN 0
                  ELSE CHOOSE m \in {input[i].id[1] : i \in given} :
                        \A i \in given : input[i].id[1] <= m
        IN  /\ Len(entries') = Len(input)
            /\ \A i \in given : entries'[i].id = input[i].id[1]
            /\ {entries'[i].id : i \in fresh}
                    = (mx + 1)..(mx + Cardinality(fresh))
            /\ \A i, j \in fresh : i < j => entries'[i].id < entries'[j].id
            /\ \A i \in DOMAIN input :
                    /\ ~entries'[i].disabled
                    /\ entries'[i].disabled_reason = NoReason
                    /\ entries'[i].failure_count = 0
                    /\ entries'[i].credentials = input[i].credentials
            /\ IF input = <<>> THEN current_id' = 0
               ELSE \E i \in DOMAIN input :
                        /\ current_id' = entries'[i].id
                        /\ \A j \in DOMAIN input :
                            \/ input[i].credentials.priority
                                    < input[j].credentials.priority
                            \/ /\ input[i].credentials.priority
                                    = input[j].credentials.priority
                               /\ i <= j ]_vars

\* new() has built a pool from a credential without an id followed by one
\* with id 2 and the smaller priority value: the first entry got id 3 and
\* current_id is 2
C32_Witness ==
    /\ pc[1] = "done"
    /\ result[1].status = "ok"
    /\ Len(loc[1].snapshot) = 2
    /\ loc[1].snapshot[1].id = None
    /\ loc[1].snapshot[2].id = Some(2)
    /\ entries[1].id = 3
    /\ entries[1].credentials.priority > entries[2].credentials.priority
    /\ current_id = 2

----------------------------------------------------------------------------
(* The mutexes of the pool, lock by lock.  Everywhere else a critical section
   is one step; here every operation is the sequence of its acquisitions,
   releases and await points, a branch taken for any reason. *)

PoolMutexes == {"entries", "current_id", "load_balancing_mode"}

\* the thread that holds a mutex, refresh_lock included
Holder(l) == IF l = "refresh_lock" THEN refresh_lock ELSE lock_holder[l]

\* a step of an operation: <<from, kind, mutex, to>>, kind "lock", "unlock",
\* "await" (a network request) or "go" (a call, a branch or a return)
Go(from, tos) == {<<from, "go", "none", to>> : to \in tos}
Await(from, tos) == {<<from, "await", "none", to>> : to \in tos}

\* { let guard = l.lock(); .. } followed by one of tos
Hold(from, l, tos) ==
    {<<from, "lock", l, from \o ":" \o l>>}
        \cup {<<from \o ":" \o l, "unlock", l, to>> : to \in tos}

\* { let a = outer.lock(); let b = inner.lock(); .. }: the guards are dropped
\* in reverse order of their declaration
Nested(from, outer, inner, tos) ==
    {<<from, "lock", outer, from \o ":" \o outer>>,
     <<from \o ":" \o outer, "lock", inner, from \o ":" \o inner>>,
     <<from \o ":" \o inner, "unlock", inner, from \o ";" \o outer>>}
        \cup {<<from \o ";" \o outer, "unlock", outer, to>> : to \in tos}

\* select_next_credential: entries is locked, and unless no entry is
\* available the mode is read under it
SelectNextCredentialLocks(from, tos) ==
    {<<from, "lock", "entries", from \o ":entries">>,
     <<from \o ":entries", "lock", "load_balancing_mode", from \o ":mode">>,
     <<from \o ":mode", "unlock", "load_balancing_mode", from \o ";entries">>}
        \cup {<<from \o ":entries", "unlock", "entries", to>> : to \in tos}
        \cup {<<from \o ";entries", "unlock", "entries", to>> : to \in tos}

\* persist_credentials: nothing to write back, or the credentials are
\* collected under entries and written with no mutex held
PersistCredentialsLocks(from, tos) ==
    Go(from, tos) \cup Hold(from, "entries", tos)

\* save_stats_debounced and save_stats: the statistics are collected under
\* entries when they are flushed
SaveStatsLocks ==
    Go("stats", {"idle"}) \cup Hold("stats", "entries", {"idle"})

\* the double-checked refresh of try_ensure_token and get_usage_limits_for:
\* refresh_lock is held from the second check to the end, the request is
\* awaited with no pool mutex held; `failed` is where an error goes, `done`
\* where the token goes
RefreshLocks(n, failed, done) ==
    {<<n, "lock", "refresh_lock", n \o "_check">>}
        \cup Hold(n \o "_check", "entries", {n \o "_err", n \o "_net", n \o "_ok"})
        \cup Await(n \o "_net", {n \o "_err", n \o "_store"})
        \cup Hold(n \o "_store", "entries", {n \o "_persist"})
        \cup PersistCredentialsLocks(n \o "_persist", {n \o "_ok"})
        \cup {<<n \o "_ok", "unlock", "refresh_lock", to>> : to \in {failed, done}}
        \cup {<<n \o "_err", "unlock", "refresh_lock", failed>>}

\* acquire_context with try_ensure_token and switch_to_next_by_priority
AcquireContextLocks ==
    Go("idle", {"acq_total"})
        \cup Hold("acq_total", "entries", {"acq_loop"})
        \cup Go("acq_loop", {"acq_mode", "acq_bail"})
        \cup Hold("acq_mode", "load_balancing_mode", {"acq_current", "acq_select"})
        \cup Nested("acq_current", "entries", "current_id", {"acq_try", "acq_select"})
        \cup SelectNextCredentialLocks("acq_select", {"acq_set", "acq_none"})
        \cup Hold("acq_none", "entries", {"acq_reselect", "acq_bail"})
        \cup SelectNextCredentialLocks("acq_reselect", {"acq_set", "acq_bail"})
        \cup Hold("acq_set", "current_id", {"acq_try"})
        \cup Hold("acq_bail", "entries", {"idle"})
        \cup Go("acq_try", {"idle", "acq_refresh", "acq_switch"})
        \cup RefreshLocks("acq_refresh", "acq_switch", "idle")
        \cup Nested("acq_switch", "entries", "current_id", {"acq_loop"})

\* report_success, report_failure, report_quota_exhausted, switch_to_next,
\* snapshot and credentials
ReportLocks ==
    Go("idle", {"report_success", "report_failure", "snapshot"})
        \cup Hold("report_success", "entries", {"stats"})
        \cup Nested("report_failure", "entries", "current_id", {"idle", "stats"})
        \cup Nested("snapshot", "entries", "current_id", {"idle"})
        \cup SaveStatsLocks

\* set_disabled, reset_and_enable and set_priority with
\* select_highest_priority
AdminLocks ==
    Go("idle", {"set_disabled", "set_priority"})
        \cup Hold("set_disabled", "entries", {"idle", "persist"})
        \cup Hold("set_priority", "entries", {"idle", "sp_select"})
        \cup Nested("sp_select", "entries", "current_id", {"persist"})
        \cup PersistCredentialsLocks("persist", {"idle"})

\* get_usage_limits_for
UsageLocks ==
    Go("idle", {"usage"})
        \cup Hold("usage", "entries", {"idle", "usage_refresh", "usage_reread"})
        \cup RefreshLocks("usage_refresh", "idle", "usage_reread")
        \cup Hold("usage_reread", "entries", {"idle", "usage_call"})
        \cup Await("usage_call", {"idle"})

\* add_credential
AddCredentialLocks ==
    Go("idle", {"add"})
        \cup Hold("add", "entries", {"idle", "add_net"})
        \cup Await("add_net", {"idle", "add_id"})
        \cup Hold("add_id", "entries", {"add_push"})
        \cup Hold("add_push", "entries", {"persist"})

\* faulty variant of DeleteCredentialLocks: the reset of current_id for an
\* empty pool takes current_id before entries
DeleteCredentialLocksInverted ==
    Go("idle", {"del"})
        \cup {<<"del", "lock", "entries", "del:entries">>,
              <<"del:entries", "unlock", "entries", "idle">>}
        \cup Hold("del:entries", "current_id", {"del;entries"})
        \cup {<<"del;entries", "unlock", "entries", to>> :
                    to \in {"del_select", "del_empty"}}
        \cup Nested("del_select", "entries", "current_id", {"del_empty"})
        \cup Nested("del_empty", "current_id", "entries", {"persist"})

\* delete_credential: the entry is looked up and removed under entries with
\* current_id read in between, select_highest_priority, then current_id is
\* reset under entries when the pool is empty
DeleteCredentialLocks ==
    Go("idle", {"del"})
        \cup {<<"del", "lock", "entries", "del:entries">>,
              <<"del:entries", "unlock", "entries", "idle">>}
        \cup Hold("del:entries", "current_id", {"del;entries"})
        \cup {<<"del;entries", "unlock", "entries", to>> :
                    to \in {"del_select", "del_empty"}}
        \cup Nested("del_select", "entries", "current_id", {"del_empty"})
        \cup {<<"del_empty", "lock", "entries", "del_empty:entries">>,
              <<"del_empty:entries", "unlock", "entries", "persist">>}
        \cup Hold("del_empty:entries", "current_id", {"del_empty;entries"})
        \cup {<<"del_empty;entries", "unlock", "entries", "persist">>}

\* get_load_balancing_mode and set_load_balancing_mode
ModeLocks ==
    Go("idle", {"mode"})
        \cup Hold("mode", "load_balancing_mode", {"idle", "mode_set"})
        \cup Hold("mode_set", "load_balancing_mode", {"idle", "mode_rollback"})
        \cup Hold("mode_rollback", "load_balancing_mode", {"idle"})

LockProgram ==
    AcquireContextLocks \cup ReportLocks \cup AdminLocks \cup UsageLocks
        \cup AddCredentialLocks \cup DeleteCredentialLocks \cup ModeLocks

StepsAt(p) == {e \in LockProgram : e[1] = pc[p]}

\* thread p takes step e of the program; parking_lot and tokio mutexes are
\* not reentrant, a lock step waits until the mutex is free
Locked(p, e) ==
    /\ e[2] = "lock"
    /\ Holder(e[3]) = NoProc
    /\ IF e[3] = "refresh_lock"
       THEN refresh_lock' = p /\ UNCHANGED lock_holder
       ELSE lock_holder' = [lock_holder EXCEPT ![e[3]] = p] /\ UNCHANGED refresh_lock

Unlocked(p, e) ==
    /\ e[2] = "unlock"
    /\ Holder(e[3]) = p
    /\ IF e[3] = "refresh_lock"
       THEN refresh_lock' = NoProc /\ UNCHANGED lock_holder
       ELSE lock_holder' = [lock_holder EXCEPT ![e[3]] = NoProc]
                /\ UNCHANGED refresh_lock

Moved(p, e) ==
    /\ e[2] \in {"go", "await"}
    /\ UNCHANGED <<lock_holder, refresh_lock>>

LockStep(p) ==
    \E e \in StepsAt(p) :
        /\ \/ Locked(p, e)
           \/ Unlocked(p, e)
           \/ Moved(p, e)
        /\ pc' = [pc EXCEPT ![p] = e[4]]
        /\ UNCHANGED <<entries, current_id, load_balancing_mode, config_file,
                       file_vars, balance_cache, balance_call, loc, result,
                       disabled_by>>

LockNext == \E p \in Procs : LockStep(p)

\* the pool's content plays no part in which mutex is taken
LockSpec == BalanceInit /\ [][LockNext]_vars

C33_Holds(p) == {l \in PoolMutexes : lock_holder[l] = p}

\* every step p could take next waits for a mutex another thread holds
C33_Blocked(p) ==
    /\ StepsAt(p) # {}
    /\ \A e \in StepsAt(p) : e[2] = "lock" /\ Holder(e[3]) # NoProc

\* following, for at most n threads, who holds the mutex a blocked thread
\* waits for, a thread is found that can take a step
RECURSIVE C33_CanProceed(_, _)
C33_CanProceed(p, n) ==
    \/ ~C33_Blocked(p)
    \/ /\ n > 0
       /\ \A e \in StepsAt(p) :
            Holder(e[3]) # p /\ C33_CanProceed(Holder(e[3]), n - 1)

\* C33: no thread is about to take entries while it holds current_id or
\* load_balancing_mode, none is about to take a mutex it holds, none holds
\* entries, current_id or load_balancing_mode where it waits for
\* refresh_lock or for a network request, and the threads never wait for
\* each other in a circle: whoever waits for a mutex waits for a thread that
\* can take a step, directly or along a chain of waiting threads.
C33_NoDeadlock ==
    \A p \in Procs :
        /\ \A e \in StepsAt(p) :
            /\ (e[2] = "lock" /\ e[3] = "entries") =>
                    C33_Holds(p) \cap {"current_id", "load_balancing_mode"} = {}
            /\ e[2] = "lock" => Holder(e[3]) # p
            /\ e[2] = "unlock" => Holder(e[3]) = p
            /\ (e[2] = "await" \/ (e[2] = "lock" /\ e[3] = "refresh_lock")) =>
                    C33_Holds(p) = {}
        /\ C33_CanProceed(p, NumProcs)

\* thread 1 holds refresh_lock and waits for entries, which thread 2 holds
\* together with current_id
C33_Witness ==
    /\ refresh_lock = 1
    /\ C33_Blocked(1)
    /\ \E e \in StepsAt(1) : e[3] = "entries"
    /\ C33_Holds(2) = {"entries", "current_id"}

----------------------------------------------------------------------------
(* RefreshSpec: two threads run acquire_context, get_usage_limits_for and
   set_priority on a pool of one credential that was loaded from a
   credentials file; the upstream may rotate the refresh token and a write of
   the file may fail *)

RefreshInit ==
    /\ \E c \in InitCredentials(1) : entries = New(<<c>>)
    /\ current_id = InitialId(entries)
    /\ load_balancing_mode \in {"priority", "balanced"}
    /\ config_file = load_balancing_mode
    /\ write_back = TRUE
    /\ credentials_file = Some(FileOf(entries))
    /\ stats_file = None
    /\ stats_dirty = FALSE
    /\ last_stats_save_at = None
    /\ refresh_lock = NoProc
    /\ NoBalances
    /\ NoLocksHeld
    /\ pc = [p \in Procs |-> "idle"]
    /\ loc = [p \in Procs |-> NoLocals]
    /\ result = [p \in Procs |-> NoResult]
    /\ disabled_by = [i \in Ids |-> NoReason]

RefreshNext ==
    \E p \in Procs :
        \/ AcquireBegin(p) \/ AcquireLoop(p) \/ AcquireCurrent(p)
        \/ AcquireSelect(p) \/ AcquireSetCurrent(p) \/ TryEnsureToken(p)
        \/ TryEnsureTokenLocked(p)
        \/ TryEnsureTokenResponseFrom(p, RotatingResponses)
        \/ AcquireFailed(p)
        \/ UsageBegin(p, 1) \/ UsageLocked(p)
        \/ UsageResponseFrom(p, RotatingResponses)
        \/ UsageReread(p) \/ UsageCalled(p)
        \/ \E priority \in 0..MaxPriority : SetPriorityBegin(p, 1, priority)
        \/ SetPrioritySelect(p)
        \/ PersistCredentials(p) \/ PersistWrite(p) \/ PersistWriteFails(p)
        \/ Return(p)

RefreshSpec == RefreshInit /\ [][RefreshNext]_vars

\* C34: the step in which a refresh stores its result changes no entry's
\* priority (it changes the token fields of the refreshed entry only), so a
\* priority that set_priority wrote while the request was in flight is still
\* there afterwards.
C34_RefreshKeepsPriority ==
    [][ \A p \in Procs :
            (pc[p] \in {"acq_refreshing", "use_refreshing"} /\ pc'[p] # pc[p]) =>
                \A i \in DOMAIN entries :
                    entries'[i].credentials.priority
                        = entries[i].credentials.priority ]_vars

\* the step of thread p is the arrival of the refresh response resp
RefreshResponseArrives(p, resp) ==
    \/ TryEnsureTokenResponseFrom(p, {resp})
    \/ UsageResponseFrom(p, {resp})

\* C35 as stated: after any refresh response for an entry of the pool that
\* carries a new refresh_token, the entry holds that token.
C35_NewTokenAlwaysKept ==
    [][ \A p \in Procs, resp \in RotatingResponses :
            (/\ resp.ok
             /\ resp.refresh_token # None
             /\ Find(entries, loc[p].id) # 0
             /\ RefreshResponseArrives(p, resp)) =>
                entries'[Find(entries, loc[p].id)].credentials.refresh_token
                    = resp.refresh_token[1] ]_vars

\* C36: on both refresh paths, when the credential a refresh produced is
\* still expired (expires_at absent or within 5 minutes), the refresh counts
\* as failed: the pool is left as it was and the call does not go on with
\* that token.
C36_ExpiredResultRejected ==
    [][ \A p \in Procs, resp \in RotatingResponses :
            (/\ resp.ok
             /\ Find(entries, loc[p].id) # 0
             /\ IsTokenExpired(RefreshedCredentials(loc[p].credentials, resp))
             /\ RefreshResponseArrives(p, resp)) =>
                /\ entries' = entries
                /\ pc'[p] \in {"acq_failed", "done"}
                /\ pc'[p] = "done" => result'[p].status # "ok" ]_vars

\* C37: no step of get_usage_limits_for, the call behind the admin balance
\* lookup, changes the failure_count, success_count, disabled or
\* disabled_reason of an entry, the membership of the pool or current_id,
\* whether the refresh it triggers and the usage request succeed or fail.
C37_BalanceLookupFrame ==
    [][ GetUsageLimitsFor(1) =>
            /\ current_id' = current_id
            /\ Len(entries') = Len(entries)
            /\ \A i \in DOMAIN entries :
                /\ entries'[i].id = entries[i].id
                /\ entries'[i].failure_count = entries[i].failure_count
                /\ entries'[i].success_count = entries[i].success_count
                /\ entries'[i].disabled = entries[i].disabled
                /\ entries'[i].disabled_reason = entries[i].disabled_reason ]_vars

\* get_usage_limits_for returned the error of a failed usage request for an
\* entry with two failures, which is still enabled with two failures
C37_Witness ==
    /\ pc[1] = "done"
    /\ result[1] = Err("UsageFailed")
    /\ \E i \in DOMAIN entries :
        /\ entries[i].id = loc[1].id
        /\ entries[i].failure_count = 2
        /\ ~entries[i].disabled

----------------------------------------------------------------------------
(* AdminService::delete_credential and the balance cache *)

\* AdminService::delete_credential after MultiTokenManager::delete_credential
\* returned: an error is passed on by `?`, otherwise the cache entry of the id
\* is removed and the cache is saved; the call returns
AdminDeleteFinish(p) ==
    /\ pc[p] = "done"
    /\ loc[p].path = "delete_credential"
    /\ balance_cache' = IF result[p].status = "ok"
                        THEN [balance_cache EXCEPT ![loc[p].id] = None]
                        ELSE balance_cache
    /\ pc' = [pc EXCEPT ![p] = "idle"]
    /\ loc' = [loc EXCEPT ![p] = NoLocals]
    /\ result' = [result EXCEPT ![p] = NoResult]
    /\ UNCHANGED <<entries, current_id, load_balancing_mode, config_file,
                   file_vars, balance_call, lock_holder, refresh_lock,
                   disabled_by>>

\* the caller of any other operation takes the result
AdminReturn(p) ==
    /\ loc[p].path # "delete_credential"
    /\ BalanceReturn(p)

\* CacheSpec: two threads look up the balance of the credential of a pool of
\* one, report its quota exhausted and delete it through the admin service
CacheNext ==
    \E p \in Procs :
        \/ GetBalanceBegin(p, 1)
        \/ FetchBalance(p)
        \/ UsageLocked(p) \/ UsageResponse(p) \/ UsageReread(p) \/ UsageCalled(p)
        \/ GetBalanceStore(p)
        \/ balance_call[p] = None /\ pc[p] = "idle" /\ ReportQuotaExhausted(p, 1)
        \/ balance_call[p] = None /\ DeleteBegin(p, 1)
        \/ DeleteSelect(p) \/ DeleteReset(p)
        \/ PersistCredentials(p)
        \/ AdminDeleteFinish(p)
        \/ AdminReturn(p)

CacheSpec == BalanceInit /\ [][CacheNext]_vars

\* C38: whenever no operation is in progress the balance cache holds entries
\* only for the ids of the pool; after delete_credential(id) the cache has no
\* entry for id, also when a get_balance(id) was fetching meanwhile.
C38_CacheWithinPool ==
    (\A p \in Procs : pc[p] = "idle" /\ balance_call[p] = None) =>
        \A id \in DOMAIN balance_cache :
            balance_cache[id] # None => Find(entries, id) # 0

\* C39: in every reachable state every entry that is not disabled has a
\* failure_count below MAX_FAILURES_PER_CREDENTIAL.
C39_EnabledBelowThreshold ==
    \A i \in DOMAIN entries :
        ~entries[i].disabled =>
            entries[i].failure_count < MAX_FAILURES_PER_CREDENTIAL

\* acquire_context has healed an entry, which is enabled again with failure
\* count 0, next to an entry that is still disabled at the threshold
C39_Witness ==
    /\ Len(entries) = 2
    /\ \E i, j \in DOMAIN entries :
        /\ entries[i].id \in loc[1].healed
        /\ ~entries[i].disabled
        /\ entries[i].failure_count = 0
        /\ entries[j].disabled
        /\ entries[j].failure_count = MAX_FAILURES_PER_CREDENTIAL

----------------------------------------------------------------------------
(* LiveSpec: thread 1 calls acquire_context on a pool of two credentials
   whose tokens need a refresh, while thread 2 reports failures of the first,
   disables and enables the second, deletes disabled credentials, adds a
   credential and refreshes the first through get_usage_limits_for *)

LiveInit ==
    /\ Init
    /\ load_balancing_mode = "priority"
    /\ Len(entries) = 2
    /\ \A i \in DOMAIN entries :
        /\ entries[i].credentials.priority = i - 1
        /\ entries[i].credentials.expires_at = 300

Interference ==
    \/ /\ pc[2] = "idle"
       /\ \/ ReportFailure(2, 1)
          \/ \E disabled \in BOOLEAN : SetDisabled(2, disabled)
    \/ UsageBegin(2, 1) \/ UsageLocked(2) \/ UsageResponse(2)
    \/ UsageReread(2) \/ UsageCalled(2)
    \/ \E c \in NewCredentials : c.refresh_token = "rt3" /\ AddBegin(2, c)
    \/ AddResponse(2) \/ AddPush(2)
    \/ DeleteCredential(2)
    \/ PersistCredentials(2)
    \/ Return(2)

LiveNext ==
    \/ AcquireContext(1)
    \/ Return(1)
    \/ Interference

\* thread 1 keeps running, its refresh request completes, tokio's Mutex hands
\* refresh_lock to its waiters in the order they arrived, and the refresh
\* request of thread 2 completes
LiveSpec ==
    /\ LiveInit
    /\ [][LiveNext]_vars
    /\ WF_vars(AcquireContext(1))
    /\ SF_vars(TryEnsureTokenLocked(1))
    /\ WF_vars(UsageResponse(2))

\* C40: a call of acquire_context never starts more loop iterations than the
\* pool had entries when the call began, and, with refresh requests that
\* complete and a refresh_lock that is granted fairly, every call returns,
\* whatever the other thread reports, disables, enables, adds, deletes or
\* refreshes meanwhile.
C40_AcquireTerminates ==
    /\ [](pc[1] \in AcquirePositions =>
            /\ loc[1].total <= InitEntries
            /\ loc[1].tried_count + (IF pc[1] = "acq_loop" THEN 0 ELSE 1)
                    <= loc[1].total
            /\ Len(loc[1].tried_ids) <= loc[1].total)
    /\ (pc[1] \in AcquirePositions) ~> (pc[1] = "done")

\* a call that began with two entries gave up after two failed refreshes,
\* while the other thread deleted an entry
C40_Witness ==
    /\ pc[1] = "done"
    /\ result[1] = Err("NoValidToken")
    /\ loc[1].total = 2
    /\ loc[1].tried_count = 2
    /\ Len(entries) = 1

====
